---- MODULE Spec2Model ----
(***************************************************************************)
(* Model of scripts/validate_docs_examples.py: the layered validation of   *)
(* documentation examples (validate_example), the staleness decision       *)
(* (should_validate) and the batch run (validate_all_examples, main); of   *)
(* scripts/bump_version.py (bump_version) and of Tools/launch_msi_build.py *)
(* (main, run_installation_with_options).                                  *)
(*                                                                         *)
(* Text (diagnostics, regular expressions, tool output) is a sequence of   *)
(* one-character strings.  Optional text (Optional[str]) is a record       *)
(* [kind |-> "none"] or [kind |-> "text", text |-> s].                     *)
(***************************************************************************)
EXTENDS Integers, Sequences, FiniteSets, TLC

VARIABLES
    \* the environment of one run of main()
    args,                 \* the parsed command line
    manifest_file,        \* _meta/manifest.json on disk, or NoFile
    files,                \* the example files on disk
    toolchain,            \* what the wfl binary can do when it is invoked
    now,                  \* the clock, in hours
    previous,             \* what the previous run of main() left, or NoRun
    cache_file,           \* _meta/validation_cache.json on disk, or NoFile
    report_file,          \* validation_report.json on disk, or NoFile
    \* main() and validate_all_examples()
    main_pc,              \* position in main / validate_all_examples
    manifest,             \* the manifest without its schema keys
    cache,                \* the cache dict in memory
    files_to_validate,    \* validate_all_examples: the files retained
    idx,                  \* index of the running loop
    passed,               \* validate_all_examples: passed results
    failed,               \* validate_all_examples: failed results
    executed,             \* the files validate_example was called on
    exit_status,          \* the exit status of the process, or NoExit
    \* validate_example()
    file_path,            \* the file under validation
    manifest_entry,       \* the manifest entry of the file
    pc,                   \* position in the function body
    result_layers_bound,  \* local result_layers is assigned
    result_layers,        \* local result_layers
    cli_ret,              \* locals (success, error)
    exec_ret,             \* locals (exit_code, stdout, stderr)
    invoked,              \* external tool invocations made for this file
    result,               \* the ValidationResult returned, or NoResult
    exception,            \* the exception that was raised and not caught
    \* should_validate()
    decision,             \* what the last call returned or raised, or "none"
    \* a second run of main() on the same cache file
    other_run,            \* the run that is not scheduled now, or NoOther
    \* scripts/bump_version.py
    build_meta_file,      \* .build_meta.json on disk, or NoFile
    version_file,         \* src/version.rs on disk, or NoFile
    today,                \* datetime.now(): the year and the month
    skip_bump,            \* bump_version: the argument of the last call
    bump_ret,             \* bump_version: what the last call returned
    modified_files,       \* the global MODIFIED_FILES
    bump_exit,            \* the exit status of bump_version.py, or NoExit
    \* Tools/launch_msi_build.py
    launch_args,          \* the parsed command line
    host,                 \* the machine: platform, cargo, npm, Docs
    launch_pc,            \* position in main
    version,              \* local version of main
    component_options,    \* local component_options of main
    component_results,    \* local component_results of main
    build_success,        \* local build_success of main, or "none"
    progress_doc,         \* the entries appended to the progress document
    ran,                  \* the steps of the build that were run
    launch_exit           \* the exit status of the launcher, or NoExit

bumpVars == <<build_meta_file, version_file, today, skip_bump, bump_ret,
              modified_files, bump_exit>>

launchVars == <<launch_args, host, launch_pc, version, component_options,
                component_results, build_success, progress_doc, ran,
                launch_exit>>

\* what a step of validate_docs_examples.py leaves alone: its command line
\* and its inputs, the run that is not scheduled, and the other scripts
envVars == <<args, manifest_file, files, toolchain, now, previous, other_run,
             bumpVars, launchVars>>

mainVars == <<cache_file, report_file, main_pc, manifest, cache, files_to_validate, idx,
              passed, failed, executed, exit_status>>

exampleVars == <<file_path, manifest_entry, pc, result_layers_bound,
                 result_layers, cli_ret, exec_ret, invoked, result>>

vars == <<envVars, mainVars, exampleVars, exception, decision>>

-----------------------------------------------------------------------------
(* Bounds of the model *)

\* exit codes of the external process range over 0..MaxExitCode
MaxExitCode == 1

-----------------------------------------------------------------------------
(* class ValidationLayer *)

PARSE == 1
ANALYZE == 2
TYPECHECK == 3
LINT == 4
EXECUTE == 5

Layers == {PARSE, ANALYZE, TYPECHECK, LINT, EXECUTE}

-----------------------------------------------------------------------------
(* Text *)

NoText == [kind |-> "none"]
SomeText(s) == [kind |-> "text", text |-> s]

\* Python's `x or ''` for an Optional[str]
OrEmpty(opt) == IF opt.kind = "none" THEN <<>> ELSE opt.text

\* Python's `a or b` for two strings
StrOr(a, b) == IF a # <<>> THEN a ELSE b

\* the upper-case letters that occur in the texts of the model
UpperToLower ==
    [c \in {"A", "B", "E", "F", "L", "T", "W"} |->
        CASE c = "A" -> "a" [] c = "B" -> "b" [] c = "E" -> "e" [] c = "F" -> "f"
          [] c = "L" -> "l" [] c = "T" -> "t" [] c = "W" -> "w"]

Lower(c) == IF c \in DOMAIN UpperToLower THEN UpperToLower[c] ELSE c

LowerStr(s) == [i \in 1..Len(s) |-> Lower(s[i])]

IsSpace(c) == c = " "

RECURSIVE LStrip(_)
LStrip(s) == IF s # <<>> /\ IsSpace(Head(s)) THEN LStrip(Tail(s)) ELSE s

RECURSIVE RStrip(_)
RStrip(s) ==
    IF s # <<>> /\ IsSpace(s[Len(s)]) THEN RStrip(SubSeq(s, 1, Len(s) - 1)) ELSE s

\* str.strip()
Strip(s) == RStrip(LStrip(s))

Range(seq) == {seq[i] : i \in 1..Len(seq)}

\* s[:n]
Take(s, n) == SubSeq(s, 1, IF Len(s) < n THEN Len(s) ELSE n)

-----------------------------------------------------------------------------
(* validate_expected_error: re.search(expected_pattern, error_message,      *)
(* re.IGNORECASE).  A pattern is a sequence of literal characters; "(" is   *)
(* a group opener, and a pattern with an unclosed group does not compile.   *)

PatternCompiles(expected_pattern) ==
    \A i \in 1..Len(expected_pattern) : expected_pattern[i] # "("

\* re.search of a literal pattern, ignoring case: the pattern occurs somewhere
ReSearchIgnoreCase(expected_pattern, error_message) ==
    \E i \in 1..(Len(error_message) + 1) :
        /\ i + Len(expected_pattern) - 1 <= Len(error_message)
        /\ LowerStr(SubSeq(error_message, i, i + Len(expected_pattern) - 1))
              = LowerStr(expected_pattern)

validate_expected_error(error_message, expected_pattern) ==
    IF PatternCompiles(expected_pattern)
    THEN ReSearchIgnoreCase(expected_pattern, error_message)
    ELSE FALSE

-----------------------------------------------------------------------------
(* The external toolchain: what one invocation of the binary can do *)

MsgBinaryNotFound == <<"W", "F", "L", " ", "b", "i", "n", "a", "r", "y">>
MsgCliTimeout == <<"T", "i", "m", "e", "o", "u", "t">>
MsgCliError == <<"E", "r", "r", "o", "r">>
MsgExecTimeout == <<"E", "x", "e", "c", " ", "t", "i", "m", "e", "o", "u", "t">>
MsgExecError == <<"E", "x", "e", "c", " ", "e", "r", "r", "o", "r">>

\* output texts of a check (parse, analyze, lint)
CliOutputs == {<<>>, <<"a">>, <<"b", "A">>, <<"b">>, <<" ">>}

\* output texts of an execution
ExecOutputs == {<<>>, <<"a">>, <<"b">>}

ExitCodes == 0..MaxExitCode

ProcessBehaviours(outputs) ==
    [kind : {"exit"}, returncode : ExitCodes, stdout : outputs, stderr : outputs]
      \cup {[kind |-> "missing"], [kind |-> "timeout"], [kind |-> "oserror"]}

\* timeout=30 in validate_with_cli
CliTimeout == 30

\* validate_with_cli that takes a timeout for a success
validate_with_cli_lenient(beh) ==
    CASE beh.kind = "missing" ->
           [success |-> FALSE, error |-> SomeText(MsgBinaryNotFound)]
      [] beh.kind = "timeout" ->
           [success |-> TRUE, error |-> NoText]
      [] beh.kind = "oserror" ->
           [success |-> FALSE, error |-> SomeText(MsgCliError)]
      [] beh.kind = "exit" ->
           IF beh.returncode = 0
           THEN [success |-> TRUE, error |-> NoText]
           ELSE [success |-> FALSE,
                 error |-> SomeText(Strip(StrOr(beh.stderr, beh.stdout)))]

\* validate_with_cli: (success, error_message)
validate_with_cli(beh) ==
    CASE beh.kind = "missing" ->
           [success |-> FALSE, error |-> SomeText(MsgBinaryNotFound)]
      [] beh.kind = "timeout" ->
           [success |-> FALSE, error |-> SomeText(MsgCliTimeout)]
      [] beh.kind = "oserror" ->
           [success |-> FALSE, error |-> SomeText(MsgCliError)]
      [] beh.kind = "exit" ->
           IF beh.returncode = 0
           THEN [success |-> TRUE, error |-> NoText]
           ELSE [success |-> FALSE,
                 error |-> SomeText(Strip(StrOr(beh.stderr, beh.stdout)))]

\* execute_wfl_file: (exit_code, stdout, stderr)
execute_wfl_file(beh) ==
    CASE beh.kind = "missing" ->
           [exit_code |-> -1, stdout |-> <<>>, stderr |-> MsgBinaryNotFound]
      [] beh.kind = "timeout" ->
           [exit_code |-> -1, stdout |-> <<>>, stderr |-> MsgExecTimeout]
      [] beh.kind = "oserror" ->
           [exit_code |-> -1, stdout |-> <<>>, stderr |-> MsgExecError]
      [] beh.kind = "exit" ->
           [exit_code |-> beh.returncode, stdout |-> beh.stdout,
            stderr |-> beh.stderr]

-----------------------------------------------------------------------------
(* Manifest entries: a JSON object, modelled as a function from the keys    *)
(* that are present to their values.                                        *)

\* dict.get(key, default)
Get(d, key, default) == IF key \in DOMAIN d THEN d[key] ELSE default

\* expected_failure_layer of an entry without that key: None
NoLayer == 0

EntryKeys ==
    {"validate_layers", "type", "expected_failure_layer",
     "expected_error_pattern", "timeout_seconds", "expected_exit_code",
     "skip_execution"}

Restrict(d, keys) == [k \in (DOMAIN d) \cap keys |-> d[k]]

Patterns == {<<>>, <<"a">>, <<"b", "a">>, <<"(">>}

\* entries that set every key but timeout_seconds
CoreEntries ==
    [validate_layers : SUBSET Layers,
     type : {"executable", "error_example"},
     expected_failure_layer : {NoLayer} \cup Layers,
     expected_error_pattern : Patterns,
     expected_exit_code : {-1} \cup ExitCodes,
     skip_execution : BOOLEAN]

\* entries that leave keys out, so that the defaults of .get() apply
BaseEntries ==
    {[validate_layers |-> {1, 2, 4, 5}, type |-> "error_example",
      expected_failure_layer |-> l, expected_error_pattern |-> <<"b">>,
      timeout_seconds |-> 5, expected_exit_code |-> 1,
      skip_execution |-> TRUE] : l \in {PARSE, EXECUTE}}

DefaultEntries == {Restrict(e, keys) : e \in BaseEntries, keys \in SUBSET EntryKeys}

\* error examples that name the layer of the failure and leave the pattern out
PatternlessEntries ==
    [validate_layers : {{1, 2, 5}, {2, 5}, {5}}, type : {"error_example"},
     expected_failure_layer : {PARSE, ANALYZE, EXECUTE}]

ManifestEntries == CoreEntries \cup DefaultEntries \cup PatternlessEntries

layers_to_validate == Get(manifest_entry, "validate_layers", Layers)
example_type == Get(manifest_entry, "type", "executable")
expected_failure_layer == Get(manifest_entry, "expected_failure_layer", NoLayer)
expected_pattern == Get(manifest_entry, "expected_error_pattern", <<>>)
skip_execution == Get(manifest_entry, "skip_execution", FALSE)
timeout == Get(manifest_entry, "timeout_seconds", 30)
expected_exit_code == Get(manifest_entry, "expected_exit_code", 0)

-----------------------------------------------------------------------------
(* class ValidationResult (execution_time_ms, a wall-clock duration, and    *)
(* warnings, never filled, are left out)                                    *)

NoResult == [none |-> TRUE]

\* ValidationResult that records the first layer, whatever layer it is given
ValidationResult_AtParse(path, success, layer) ==
    [file_path |-> path, success |-> success, layer |-> PARSE,
     error |-> NoText, layers_passed |-> <<>>]

ValidationResult(path, success, layer) ==
    [file_path |-> path, success |-> success, layer |-> layer,
     error |-> NoText, layers_passed |-> <<>>]

\* f"Exit code {exit_code}, expected {expected_exit_code}" [+ stderr[:200]]
ExitCodeError(code, expected, err) ==
    [kind |-> "exit", exit_code |-> code, expected |-> expected,
     stderr |-> Take(err, 200)]

NoCliRet == [none |-> TRUE]
NoExecRet == [none |-> TRUE]

-----------------------------------------------------------------------------
(* Paths, files and fingerprints.  A path is the sequence of its components. *)

\* examples_dir.parent: <repo>/TestPrograms
TestProgramsDir == <<"repo", "TestPrograms">>

\* examples_dir.parent / rel_path
AbsPath(rel_path) == TestProgramsDir \o rel_path

\* path.parent
Parent(path) == SubSeq(path, 1, Len(path) - 1)

IsUnder(path, base) == Len(base) <= Len(path) /\ SubSeq(path, 1, Len(base)) = base

\* path.relative_to(base), for a path under base
RelativeTo(path, base) == SubSeq(path, Len(base) + 1, Len(path))

NoFile == [exists |-> FALSE]

\* file_path.exists(): files maps the paths that exist to their state
Exists(path) == path \in DOMAIN files

\* open(path, 'rb') succeeds
CanReadBytes(path) == Exists(path) /\ files[path].readable

\* open(path, 'r', encoding='utf-8') and read() succeed
CanReadText(path) == CanReadBytes(path) /\ files[path].utf8

MsgFailedToRead == <<"F", "a", "i", "l", "e", "d">>

\* compute_file_hash: the digest is taken to be free of collisions, so it is
\* the content under the tag of the algorithm
compute_file_hash(path) == <<"sha256", files[path].content>>

-----------------------------------------------------------------------------
(* Timestamps.  A timestamp string is [fmt, t]: "offset" is ISO with a      *)
(* +00:00 offset, "Z" is ISO with a Z suffix, "naive" is ISO without zone,  *)
(* "garbage" is not ISO, "empty" is the empty string; t counts hours.       *)

EmptyStr == [fmt |-> "empty"]

\* datetime.now(timezone.utc).isoformat()
IsoFormatUtc(t) == [fmt |-> "offset", t |-> t]

\* last_validated.replace('Z', '+00:00')
ReplaceZ(ts) == IF ts.fmt = "Z" THEN [fmt |-> "offset", t |-> ts.t] ELSE ts

\* datetime.fromisoformat: a datetime, or ValueError
FromIsoFormat(ts) ==
    CASE ts.fmt = "offset" -> [ok |-> TRUE, aware |-> TRUE, t |-> ts.t]
      [] ts.fmt = "naive" -> [ok |-> TRUE, aware |-> FALSE, t |-> ts.t]
      [] OTHER -> [ok |-> FALSE]

HoursPerDay == 24

\* (a - b).days of two aware datetimes: whole days, rounded down
DaysBetween(a, b) == (a - b) \div HoursPerDay

\* the freshness window of should_validate, in days
MaxAgeDays == 7

-----------------------------------------------------------------------------
(* The manifest in memory: the (key, entry) pairs in iteration order *)

ManifestKeys(mf) == {mf[i][1] : i \in 1..Len(mf)}

ManifestEntry(mf, key) == mf[CHOOSE i \in 1..Len(mf) : mf[i][1] = key][2]

-----------------------------------------------------------------------------
(* should_validate: "True", "False", or the exception that it raises *)

should_validate(path, mf, ch) ==
    LET rel_path == RelativeTo(path, Parent(Parent(Parent(path)))) IN
    IF rel_path \notin ManifestKeys(mf) THEN "True"
    ELSE IF ~CanReadBytes(path) THEN "OSError"
    ELSE
      LET current_hash == compute_file_hash(path)
          cache_files == Get(ch, "files", <<>>)
      IN
      IF rel_path \notin DOMAIN cache_files THEN "True"
      ELSE
        LET cached_entry == cache_files[rel_path]
            cached_hash == Get(cached_entry, "content_hash", <<>>)
            last_validated == Get(cached_entry, "last_validated", EmptyStr)
            last_date == FromIsoFormat(ReplaceZ(last_validated))
        IN
        IF current_hash # cached_hash THEN "True"
        ELSE IF last_validated = EmptyStr THEN "False"
        ELSE IF ~last_date.ok THEN "True"
        ELSE IF ~last_date.aware THEN "TypeError"
        ELSE IF DaysBetween(now, last_date.t) > MaxAgeDays THEN "True"
        ELSE "False"

-----------------------------------------------------------------------------
(* validate_example, one action per block of the function body *)

Returns(r) == pc' = "return" /\ result' = r /\ exception' = exception
Raises(e) == pc' = "raise" /\ exception' = e /\ result' = result
Goes(next) == pc' = next /\ result' = result /\ exception' = exception

\* one call of the adapter: the command, the timeout it was given, and
\* whether the adapter reported success (for "run": exit code 0)
Invoke(command, seconds, success) ==
    invoked' = Append(invoked, [command |-> command, timeout |-> seconds,
                                success |-> success])

\* ReturnsWithLayers that lists the layer of the result among the passed ones
ReturnsWithLayers_Inclusive(r) ==
    IF result_layers_bound
    THEN Returns([r EXCEPT !.layers_passed = Append(result_layers, r.layer)])
    ELSE Raises("UnboundLocalError")

\* result.layers_passed = result_layers; return result
ReturnsWithLayers(r) ==
    IF result_layers_bound
    THEN Returns([r EXCEPT !.layers_passed = result_layers])
    ELSE Raises("UnboundLocalError")

\* result_layers.append(layer), then on to the next block
AppendsLayer(layer, next) ==
    IF result_layers_bound
    THEN /\ result_layers' = Append(result_layers, layer)
         /\ result_layers_bound' = TRUE
         /\ Goes(next)
    ELSE /\ UNCHANGED <<result_layers, result_layers_bound>>
         /\ Raises("UnboundLocalError")

\* lines 225-235: read the source
ReadSource ==
    /\ pc = "read"
    /\ IF CanReadText(file_path)
       THEN Goes("L1")
       ELSE Returns([ValidationResult(file_path, FALSE, PARSE)
                       EXCEPT !.error = SomeText(MsgFailedToRead)])
    /\ UNCHANGED <<envVars, mainVars, decision, file_path, manifest_entry,
                   result_layers_bound, result_layers, cli_ret, exec_ret,
                   invoked>>

\* lines 237-253
Layer1 ==
    /\ pc = "L1"
    /\ UNCHANGED <<envVars, mainVars, decision, file_path, manifest_entry, exec_ret>>
    /\ IF 1 \in layers_to_validate
       THEN \E beh \in toolchain.check :
              LET ret == validate_with_cli(beh) IN
              /\ Invoke("parse", CliTimeout, ret.success)
              /\ cli_ret' = ret
              /\ IF ~ret.success
                 THEN /\ UNCHANGED <<result_layers, result_layers_bound>>
                      /\ IF /\ example_type = "error_example"
                            /\ expected_failure_layer = 1
                            /\ validate_expected_error(OrEmpty(ret.error),
                                                       expected_pattern)
                         THEN Returns(ValidationResult(file_path, TRUE, PARSE))
                         ELSE Returns([ValidationResult(file_path, FALSE, PARSE)
                                         EXCEPT !.error = ret.error])
                 ELSE /\ result_layers' = <<1>>
                      /\ result_layers_bound' = TRUE
                      /\ Goes("L2")
       ELSE /\ Goes("L2")
            /\ UNCHANGED <<result_layers, result_layers_bound, cli_ret, invoked>>

\* Layer2 with a failing analysis recorded and passed over, as lint is
Layer2_Soft ==
    /\ pc = "L2"
    /\ UNCHANGED <<envVars, mainVars, decision, file_path, manifest_entry, exec_ret>>
    /\ IF 2 \in layers_to_validate
       THEN \E beh \in toolchain.check :
              LET ret == validate_with_cli(beh) IN
              /\ Invoke("analyze", CliTimeout, ret.success)
              /\ cli_ret' = ret
              /\ AppendsLayer(2, "L3")
       ELSE /\ Goes("L3")
            /\ UNCHANGED <<result_layers, result_layers_bound, cli_ret, invoked>>

\* lines 255-272
Layer2 ==
    /\ pc = "L2"
    /\ UNCHANGED <<envVars, mainVars, decision, file_path, manifest_entry, exec_ret>>
    /\ IF 2 \in layers_to_validate
       THEN \E beh \in toolchain.check :
              LET ret == validate_with_cli(beh) IN
              /\ Invoke("analyze", CliTimeout, ret.success)
              /\ cli_ret' = ret
              /\ IF ~ret.success
                 THEN /\ UNCHANGED <<result_layers, result_layers_bound>>
                      /\ IF /\ example_type = "error_example"
                            /\ expected_failure_layer = 2
                            /\ validate_expected_error(OrEmpty(ret.error),
                                                       expected_pattern)
                         THEN ReturnsWithLayers(
                                ValidationResult(file_path, TRUE, ANALYZE))
                         ELSE ReturnsWithLayers(
                                [ValidationResult(file_path, FALSE, ANALYZE)
                                   EXCEPT !.error = ret.error])
                 ELSE AppendsLayer(2, "L3")
       ELSE /\ Goes("L3")
            /\ UNCHANGED <<result_layers, result_layers_bound, cli_ret, invoked>>

\* lines 274-283: no tool is called for type checking
Layer3 ==
    /\ pc = "L3"
    /\ UNCHANGED <<envVars, mainVars, decision, file_path, manifest_entry,
                   cli_ret, exec_ret, invoked>>
    /\ IF 3 \in layers_to_validate
       THEN AppendsLayer(3, "L4")
       ELSE Goes("L4") /\ UNCHANGED <<result_layers, result_layers_bound>>

\* Layer4 with a failing lint treated as a hard failure
Layer4_Hard ==
    /\ pc = "L4"
    /\ UNCHANGED <<envVars, mainVars, decision, file_path, manifest_entry, exec_ret>>
    /\ IF 4 \in layers_to_validate
       THEN \E beh \in toolchain.check :
              LET ret == validate_with_cli(beh) IN
              /\ Invoke("lint", CliTimeout, ret.success)
              /\ cli_ret' = [success |-> ret.success, error |-> NoText]
              /\ IF ~ret.success
                 THEN /\ UNCHANGED <<result_layers, result_layers_bound>>
                      /\ ReturnsWithLayers(
                           [ValidationResult(file_path, FALSE, LINT)
                              EXCEPT !.error = ret.error])
                 ELSE AppendsLayer(4, "L5")
       ELSE /\ Goes("L5")
            /\ UNCHANGED <<result_layers, result_layers_bound, cli_ret, invoked>>

\* lines 285-292: the result of lint is not looked at
Layer4 ==
    /\ pc = "L4"
    /\ UNCHANGED <<envVars, mainVars, decision, file_path, manifest_entry, exec_ret>>
    /\ IF 4 \in layers_to_validate
       THEN \E beh \in toolchain.check :
              LET ret == validate_with_cli(beh) IN
              /\ Invoke("lint", CliTimeout, ret.success)
              \* success, output = ...: output is never read
              /\ cli_ret' = [success |-> ret.success, error |-> NoText]
              /\ IF ~ret.success
                 THEN AppendsLayer(4, "L5")
                 ELSE AppendsLayer(4, "L5")
       ELSE /\ Goes("L5")
            /\ UNCHANGED <<result_layers, result_layers_bound, cli_ret, invoked>>

\* lines 294-326
Layer5 ==
    /\ pc = "L5"
    /\ UNCHANGED <<envVars, mainVars, decision, file_path, manifest_entry, cli_ret>>
    /\ IF 5 \in layers_to_validate /\ ~skip_execution
       THEN \E beh \in toolchain.run :
              LET ret == execute_wfl_file(beh)
                  error_output == StrOr(ret.stderr, ret.stdout)
              IN
              /\ Invoke("run", timeout, ret.exit_code = 0)
              /\ exec_ret' = ret
              /\ UNCHANGED result_layers_bound
              /\ IF ret.exit_code # expected_exit_code
                 THEN /\ UNCHANGED result_layers
                      /\ IF /\ example_type = "error_example"
                            /\ validate_expected_error(error_output,
                                                       expected_pattern)
                         THEN ReturnsWithLayers(
                                ValidationResult(file_path, TRUE, EXECUTE))
                         ELSE ReturnsWithLayers(
                                [ValidationResult(file_path, FALSE, EXECUTE)
                                   EXCEPT !.error =
                                     ExitCodeError(ret.exit_code,
                                                   expected_exit_code,
                                                   ret.stderr)])
                 ELSE IF result_layers_bound
                      THEN /\ result_layers' = Append(result_layers, 5)
                           /\ Returns([ValidationResult(file_path, TRUE, EXECUTE)
                                         EXCEPT !.layers_passed =
                                           Append(result_layers, 5)])
                      ELSE /\ UNCHANGED result_layers
                           /\ Raises("UnboundLocalError")
       ELSE /\ ReturnsWithLayers(ValidationResult(file_path, TRUE, EXECUTE))
            /\ UNCHANGED <<result_layers, result_layers_bound, exec_ret, invoked>>

validate_example == ReadSource \/ Layer1 \/ Layer2 \/ Layer3 \/ Layer4 \/ Layer5

-----------------------------------------------------------------------------
(* Spec: validate_example on one file, for every manifest entry and every   *)
(* behaviour of the toolchain                                               *)

\* TestPrograms/docs_examples/basic_syntax/hello.wfl
HelloPath == <<"docs_examples", "basic_syntax", "hello.wfl">>

NoArgs ==
    [category |-> <<>>, file |-> <<>>, ci |-> FALSE, force |-> FALSE,
     report |-> FALSE]

\* no run of main() came before this one
NoRun == [none |-> TRUE]

\* main() has not called sys.exit
NoExit == -1

FullToolchain ==
    [check |-> ProcessBehaviours(CliOutputs),
     run |-> ProcessBehaviours(ExecOutputs),
     version |-> ProcessBehaviours({<<"1">>})]

\* the states of one file on disk
FileStates ==
    {[readable |-> TRUE, utf8 |-> TRUE, content |-> 1],
     [readable |-> TRUE, utf8 |-> FALSE, content |-> 1],
     [readable |-> FALSE, utf8 |-> TRUE, content |-> 1]}

\* there is no second run of main()
NoOther == [none |-> TRUE]

\* bump_version.py has not been started
BumpIdle ==
    /\ build_meta_file = [exists |-> FALSE]
    /\ version_file = [exists |-> FALSE]
    /\ today = [year |-> 2000, month |-> 1]
    /\ skip_bump = FALSE
    /\ bump_ret = [none |-> TRUE]
    /\ modified_files = <<>>
    /\ bump_exit = -1

\* launch_msi_build.py has not been started
LaunchIdle ==
    /\ launch_args = <<>>
    /\ host = <<>>
    /\ launch_pc = "none"
    /\ version = <<>>
    /\ component_options = <<>>
    /\ component_results = <<>>
    /\ build_success = "none"
    /\ progress_doc = <<>>
    /\ ran = <<>>
    /\ launch_exit = -1

\* only validate_docs_examples.py is running
OthersIdle == other_run = NoOther /\ BumpIdle /\ LaunchIdle

\* no run of main() is in progress
MainIdle ==
    /\ args = NoArgs
    /\ manifest_file = NoFile
    /\ cache_file = NoFile
    /\ report_file = NoFile
    /\ now = 0
    /\ previous = NoRun
    /\ main_pc = "none"
    /\ manifest = <<>>
    /\ cache = <<>>
    /\ files_to_validate = <<>>
    /\ idx = 0
    /\ passed = <<>>
    /\ failed = <<>>
    /\ executed = <<>>
    /\ exit_status = NoExit

\* validate_example(path, entry) is entered
Entered(path, entry) ==
    /\ file_path = path
    /\ manifest_entry = entry
    /\ pc = "read"
    /\ result_layers_bound = FALSE
    /\ result_layers = <<>>
    /\ cli_ret = NoCliRet
    /\ exec_ret = NoExecRet
    /\ invoked = <<>>
    /\ result = NoResult

Init ==
    /\ MainIdle
    /\ OthersIdle
    /\ toolchain = FullToolchain
    /\ \E state \in FileStates : files = (AbsPath(HelloPath) :> state)
    /\ \E entry \in ManifestEntries : Entered(AbsPath(HelloPath), entry)
    /\ exception = "none"
    /\ decision = "none"

Next == ReadSource \/ Layer1 \/ Layer2 \/ Layer3 \/ Layer4 \/ Layer5

Spec == Init /\ [][Next]_vars

-----------------------------------------------------------------------------
(* main() and validate_all_examples() *)

\* keys beginning with '$' are schema entries
IsSchemaKey(key) == key[1] \in {"$schema", "$comment"}

\* manifest = {k: v for k, v in manifest.items() if not k.startswith('$')}
WithoutSchemaKeys(mf) == SelectSeq(mf, LAMBDA item : ~IsSchemaKey(item[1]))

\* rel_path.startswith(f"{category}/")
InCategory(rel_path, category) ==
    Len(category) < Len(rel_path) /\ SubSeq(rel_path, 1, Len(category)) = category

\* an exception leaves main(): traceback, exit status 1
Uncaught(e) ==
    /\ exception' = e
    /\ main_pc' = "exit"
    /\ exit_status' = 1

\* the call validate_example(path, entry)
Enters(path, entry) ==
    /\ file_path' = path
    /\ manifest_entry' = entry
    /\ pc' = "read"
    /\ result_layers_bound' = FALSE
    /\ result_layers' = <<>>
    /\ cli_ret' = NoCliRet
    /\ exec_ret' = NoExecRet
    /\ invoked' = <<>>
    /\ result' = NoResult
    /\ executed' = Append(executed, path)

\* lines 485-501: load the manifest and the cache
LoadFiles ==
    /\ main_pc = "start"
    /\ IF manifest_file = NoFile
       THEN /\ main_pc' = "exit"
            /\ exit_status' = 1
            /\ UNCHANGED <<manifest, cache>>
       ELSE /\ manifest' = WithoutSchemaKeys(manifest_file.data)
            /\ cache' = IF cache_file # NoFile /\ ~args.force
                        THEN cache_file.data
                        ELSE <<>>
            /\ main_pc' = "validate_all"
            /\ UNCHANGED exit_status
    /\ UNCHANGED <<envVars, cache_file, report_file, files_to_validate, idx, passed, failed,
                   executed, exampleVars, exception, decision>>

\* lines 343-369: validate_all_examples up to the first loop
ValidateAll ==
    /\ main_pc = "validate_all"
    /\ passed' = <<>>
    /\ failed' = <<>>
    /\ files_to_validate' = <<>>
    /\ idx' = 1
    /\ IF args.file # <<>>
       THEN LET rel_path == RelativeTo(args.file, TestProgramsDir) IN
            IF rel_path \notin ManifestKeys(manifest)
            THEN /\ main_pc' = "update_cache"
                 /\ UNCHANGED <<exampleVars, executed>>
            ELSE /\ main_pc' = "single"
                 /\ Enters(args.file, ManifestEntry(manifest, rel_path))
       ELSE /\ main_pc' = IF manifest = <<>> THEN "update_cache" ELSE "collect"
            /\ UNCHANGED <<exampleVars, executed>>
    /\ UNCHANGED <<envVars, cache_file, report_file, manifest, cache,
                   exit_status, exception,
                   decision>>

\* lines 371-387: one iteration of the loop over the manifest
CollectFile ==
    /\ main_pc = "collect"
    /\ LET rel_path == manifest[idx][1]
           path == AbsPath(rel_path)
           retained == Append(files_to_validate, <<path, manifest[idx][2]>>)
           after == IF idx < Len(manifest) THEN "collect"
                    ELSE "validate"
           needed == should_validate(path, manifest, cache)
       IN
       IF ~Exists(path)
       THEN main_pc' = after /\ UNCHANGED <<files_to_validate, exception, exit_status>>
       ELSE IF args.category # <<>> /\ ~InCategory(rel_path, args.category)
       THEN main_pc' = after /\ UNCHANGED <<files_to_validate, exception, exit_status>>
       ELSE IF args.force
       THEN /\ main_pc' = after
            /\ files_to_validate' = retained
            /\ UNCHANGED <<exception, exit_status>>
       ELSE IF needed = "False"
       THEN main_pc' = after /\ UNCHANGED <<files_to_validate, exception, exit_status>>
       ELSE IF needed = "True"
       THEN /\ main_pc' = after
            /\ files_to_validate' = retained
            /\ UNCHANGED <<exception, exit_status>>
       ELSE Uncaught(needed) /\ UNCHANGED files_to_validate
    /\ decision' = IF Exists(AbsPath(manifest[idx][1]))
                       /\ (args.category # <<>>
                             => InCategory(manifest[idx][1], args.category))
                       /\ ~args.force
                    THEN should_validate(AbsPath(manifest[idx][1]), manifest, cache)
                    ELSE decision
    /\ idx' = IF idx < Len(manifest) THEN idx + 1 ELSE 1
    /\ UNCHANGED <<envVars, cache_file, report_file, manifest, cache, passed,
                   failed, executed, exampleVars>>

\* ValidateNext that takes the retained files from the last to the first
ValidateNext_Reversed ==
    /\ main_pc = "validate"
    /\ pc = "idle"
    /\ IF idx <= Len(files_to_validate)
       THEN /\ Enters(files_to_validate[Len(files_to_validate) + 1 - idx][1],
                      files_to_validate[Len(files_to_validate) + 1 - idx][2])
            /\ UNCHANGED main_pc
       ELSE /\ main_pc' = "update_cache"
            /\ UNCHANGED <<exampleVars, executed>>
    /\ UNCHANGED <<envVars, cache_file, report_file, manifest, cache,
                   files_to_validate, idx,
                   passed, failed, exit_status, exception, decision>>

\* lines 390-395: the second loop calls validate_example, or is over
ValidateNext ==
    /\ main_pc = "validate"
    /\ pc = "idle"
    /\ IF idx <= Len(files_to_validate)
       THEN /\ Enters(files_to_validate[idx][1], files_to_validate[idx][2])
            /\ UNCHANGED main_pc
       ELSE /\ main_pc' = "update_cache"
            /\ UNCHANGED <<exampleVars, executed>>
    /\ UNCHANGED <<envVars, cache_file, report_file, manifest, cache,
                   files_to_validate, idx,
                   passed, failed, exit_status, exception, decision>>

\* lines 357-366 and 397-404: validate_example has returned
RecordResult ==
    /\ main_pc \in {"single", "validate"}
    /\ pc = "return"
    /\ IF result.success
       THEN passed' = Append(passed, result) /\ UNCHANGED failed
       ELSE failed' = Append(failed, result) /\ UNCHANGED passed
    /\ pc' = "idle"
    /\ idx' = idx + 1
    /\ main_pc' = IF main_pc = "single" THEN "update_cache" ELSE "validate"
    /\ UNCHANGED <<envVars, cache_file, report_file, manifest, cache, files_to_validate,
                   executed, exit_status, file_path, manifest_entry,
                   result_layers_bound, result_layers, cli_ret, exec_ret,
                   invoked, result, exception, decision>>

\* validate_example has raised: nothing catches the exception
ExampleRaised ==
    /\ main_pc \in {"single", "validate"}
    /\ pc = "raise"
    /\ main_pc' = "exit"
    /\ exit_status' = 1
    /\ pc' = "idle"
    /\ UNCHANGED <<envVars, cache_file, report_file, manifest, cache,
                   files_to_validate, idx,
                   passed, failed, executed, file_path, manifest_entry,
                   result_layers_bound, result_layers, cli_ret, exec_ret,
                   invoked, result, exception, decision>>

\* get_wfl_version: stdout of `wfl --version`, or "unknown"
MsgUnknown == <<"u", "n", "k", "n", "o", "w", "n">>

get_wfl_version(beh) ==
    IF beh.kind = "exit" /\ beh.returncode = 0 THEN Strip(beh.stdout) ELSE MsgUnknown

\* update_cache: the cache_files mapping after the loop over the results
RECURSIVE update_cache(_, _)
update_cache(cache_files, results) ==
    IF results = <<>> THEN cache_files
    ELSE LET r == Head(results)
             rel_path == RelativeTo(r.file_path, TestProgramsDir)
             entry == [content_hash |-> compute_file_hash(r.file_path),
                       last_validated |-> IsoFormatUtc(now),
                       validation_result |-> IF r.success THEN "pass" ELSE "fail",
                       layers_passed |-> r.layers_passed]
         IN update_cache((rel_path :> entry) @@ cache_files, Tail(results))

\* lines 516-523 without the test of --ci
UpdateCache_InCi ==
    /\ main_pc = "update_cache"
    /\ LET results == passed \o failed IN
       IF FALSE
       THEN /\ main_pc' = "summary"
            /\ UNCHANGED <<cache, cache_file, exception, exit_status>>
       ELSE IF \E i \in 1..Len(results) : ~CanReadBytes(results[i].file_path)
       THEN /\ Uncaught("OSError")
            /\ UNCHANGED <<cache, cache_file>>
       ELSE \E beh \in toolchain.version :
              LET written ==
                    ("files" :> update_cache(Get(cache, "files", <<>>), results))
                    @@ ("wfl_version" :> get_wfl_version(beh))
                    @@ ("last_full_validation" :> IsoFormatUtc(now))
                    @@ cache
              IN /\ cache' = written
                 /\ cache_file' = [exists |-> TRUE, data |-> written]
                 /\ main_pc' = "summary"
                 /\ UNCHANGED <<exception, exit_status>>
    /\ UNCHANGED <<envVars, report_file, manifest, files_to_validate, idx,
                   passed, failed, executed, exampleVars, decision>>

\* lines 516-523: update and write the cache, unless --ci
UpdateCache ==
    /\ main_pc = "update_cache"
    /\ LET results == passed \o failed IN
       IF args.ci
       THEN /\ main_pc' = "summary"
            /\ UNCHANGED <<cache, cache_file, exception, exit_status>>
       ELSE IF \E i \in 1..Len(results) : ~CanReadBytes(results[i].file_path)
       THEN /\ Uncaught("OSError")
            /\ UNCHANGED <<cache, cache_file>>
       ELSE \E beh \in toolchain.version :
              LET written ==
                    ("files" :> update_cache(Get(cache, "files", <<>>), results))
                    @@ ("wfl_version" :> get_wfl_version(beh))
                    @@ ("last_full_validation" :> IsoFormatUtc(now))
                    @@ cache
              IN /\ cache' = written
                 /\ cache_file' = [exists |-> TRUE, data |-> written]
                 /\ main_pc' = "summary"
                 /\ UNCHANGED <<exception, exit_status>>
    /\ UNCHANGED <<envVars, report_file, manifest, files_to_validate, idx,
                   passed, failed, executed, exampleVars, decision>>

\* layer.name.lower()
LayerName(layer) ==
    CASE layer = PARSE -> "parse"
      [] layer = ANALYZE -> "analyze"
      [] layer = TYPECHECK -> "typecheck"
      [] layer = LINT -> "lint"
      [] layer = EXECUTE -> "execute"

\* generate_report: the report object that is dumped to the report file
generate_report(passed_results, failed_results, beh) ==
    [validation_timestamp |-> IsoFormatUtc(now),
     wfl_version |-> get_wfl_version(beh),
     total_examples |-> Len(passed_results) + Len(failed_results),
     validated |-> Len(passed_results) + Len(failed_results),
     passed |-> Len(passed_results),
     failed |-> Len(failed_results),
     failures |-> [i \in 1..Len(failed_results) |->
                     [file |-> failed_results[i].file_path,
                      layer |-> failed_results[i].layer,
                      layer_name |-> LayerName(failed_results[i].layer),
                      error |-> failed_results[i].error]]]

\* lines 525-544: the report if --report, the summary and the exit status
Summary ==
    /\ main_pc = "summary"
    /\ main_pc' = "exit"
    /\ IF args.report
       THEN \E beh \in toolchain.version :
              report_file' = [exists |-> TRUE,
                              data |-> generate_report(passed, failed, beh)]
       ELSE UNCHANGED report_file
    /\ exit_status' = IF failed # <<>> THEN 1 ELSE 0
    /\ UNCHANGED <<envVars, cache_file, manifest, cache, files_to_validate, idx,
                   passed, failed, executed, exampleVars, exception, decision>>

-----------------------------------------------------------------------------
(* SpecBatch: one run of main() over a small corpus *)

\* TestPrograms/docs_examples/error_examples/bad.wfl
BadPath == <<"docs_examples", "error_examples", "bad.wfl">>

\* TestPrograms/docs_examples/basic_syntax/nested/deep.wfl
DeepPath == <<"docs_examples", "basic_syntax", "nested", "deep.wfl">>

DefaultEntry == <<>>

NoParseEntry == [validate_layers |-> {2, 3}]

ErrorEntry ==
    [validate_layers |-> {1}, type |-> "error_example",
     expected_failure_layer |-> 1, expected_error_pattern |-> <<"a">>]

OkFile == [present |-> TRUE, readable |-> TRUE, utf8 |-> TRUE, content |-> 1]
UnreadableFile == [present |-> TRUE, readable |-> FALSE, utf8 |-> TRUE, content |-> 1]
MissingFile == [present |-> FALSE]

\* a cache entry as update_cache writes it
CacheEntry(content, ts, verdict, layers) ==
    [content_hash |-> <<"sha256", content>>, last_validated |-> ts,
     validation_result |-> verdict, layers_passed |-> layers]

NotCached == [present |-> FALSE]
Cached(entry) == [present |-> TRUE, entry |-> entry]

FreshPass == CacheEntry(1, IsoFormatUtc(-1), "pass", <<1, 2, 3, 4, 5>>)

\* the cache entries tried for the file under study
CacheSamples ==
    {FreshPass,
     CacheEntry(1, IsoFormatUtc(-1), "fail", <<1>>),
     CacheEntry(2, IsoFormatUtc(-1), "pass", <<1, 2, 3, 4, 5>>),
     CacheEntry(1, IsoFormatUtc(-(7 * HoursPerDay + 1)), "pass", <<1>>),
     CacheEntry(1, IsoFormatUtc(-(8 * HoursPerDay + 1)), "pass", <<1>>),
     CacheEntry(1, [fmt |-> "Z", t |-> -1], "pass", <<1>>),
     CacheEntry(1, [fmt |-> "naive", t |-> -1], "pass", <<1>>),
     CacheEntry(1, [fmt |-> "garbage"], "pass", <<1>>),
     CacheEntry(1, EmptyStr, "pass", <<1>>),
     [content_hash |-> <<"sha256", 1>>, validation_result |-> "pass"]}

\* what is tried for one path: its manifest entry, its file, its cache entry
PathVariants(rel_path) ==
    IF rel_path = HelloPath
    THEN [entry : {DefaultEntry, NoParseEntry},
          file : {OkFile, UnreadableFile, MissingFile},
          cached : {NotCached} \cup {Cached(e) : e \in CacheSamples}]
    ELSE [entry : {IF rel_path = BadPath THEN ErrorEntry ELSE DefaultEntry},
          file : {OkFile},
          cached : {NotCached, Cached(FreshPass)}]

\* the manifest key orders tried
KeyOrders ==
    {<<HelloPath>>, <<DeepPath>>, <<HelloPath, BadPath>>, <<BadPath, HelloPath>>,
     <<HelloPath, DeepPath>>, <<DeepPath, HelloPath>>, <<BadPath, DeepPath>>}

Corpora ==
    UNION {{[keys |-> order, variant |-> v] :
              v \in {w \in [1..Len(order) ->
                               UNION {PathVariants(q) : q \in Range(order)}] :
                        \A i \in 1..Len(order) : w[i] \in PathVariants(order[i])}} :
           order \in KeyOrders}

SchemaItem == <<<<"$schema">>, <<>>>>

ManifestOf(corpus) ==
    <<SchemaItem>> \o
      [i \in 1..Len(corpus.keys) |-> <<corpus.keys[i], corpus.variant[i].entry>>]

FilesOf(corpus) ==
    LET present == {i \in 1..Len(corpus.keys) : corpus.variant[i].file.present}
    IN [path \in {AbsPath(corpus.keys[i]) : i \in present} |->
          LET i == CHOOSE i \in present : AbsPath(corpus.keys[i]) = path
          IN [readable |-> corpus.variant[i].file.readable,
              utf8 |-> corpus.variant[i].file.utf8,
              content |-> corpus.variant[i].file.content]]

CacheFileOf(corpus) ==
    LET cached == {i \in 1..Len(corpus.keys) : corpus.variant[i].cached.present}
    IN IF cached = {} THEN NoFile
       ELSE [exists |-> TRUE,
             data |->
               [files |-> [key \in {corpus.keys[i] : i \in cached} |->
                             LET i == CHOOSE i \in cached : corpus.keys[i] = key
                             IN corpus.variant[i].cached.entry],
                wfl_version |-> <<"1">>,
                last_full_validation |-> IsoFormatUtc(-1)]]

\* the command lines tried
ArgsSamples ==
    [category : {<<>>, <<"docs_examples", "basic_syntax">>}, file : {<<>>},
     ci : BOOLEAN, force : BOOLEAN, report : BOOLEAN]
      \cup [category : {<<>>}, file : {AbsPath(HelloPath)},
            ci : BOOLEAN, force : BOOLEAN, report : BOOLEAN]
      \cup [category : {<<"docs_examples", "error_examples">>},
            file : {AbsPath(HelloPath)}, ci : {TRUE}, force : {FALSE},
            report : {FALSE}]

BatchToolchain ==
    [check |-> {[kind |-> "exit", returncode |-> 0, stdout |-> <<>>, stderr |-> <<>>],
                [kind |-> "exit", returncode |-> 1, stdout |-> <<>>,
                 stderr |-> <<"a">>]},
     run |-> {[kind |-> "exit", returncode |-> 0, stdout |-> <<>>, stderr |-> <<>>],
              [kind |-> "timeout"]},
     version |-> {[kind |-> "exit", returncode |-> 0, stdout |-> <<"1", " ">>,
                   stderr |-> <<>>]}]

\* target/release/wfl does not exist
AbsentToolchain ==
    [check |-> {[kind |-> "missing"]}, run |-> {[kind |-> "missing"]},
     version |-> {[kind |-> "missing"]}]

\* no validate_example is in progress
ExampleIdle ==
    /\ file_path = <<>>
    /\ manifest_entry = <<>>
    /\ pc = "idle"
    /\ result_layers_bound = FALSE
    /\ result_layers = <<>>
    /\ cli_ret = NoCliRet
    /\ exec_ret = NoExecRet
    /\ invoked = <<>>
    /\ result = NoResult

InitBatch ==
    /\ args \in ArgsSamples
    /\ \E corpus \in Corpora :
         /\ manifest_file \in {[exists |-> TRUE, data |-> ManifestOf(corpus)], NoFile}
         /\ files = FilesOf(corpus)
         /\ cache_file = CacheFileOf(corpus)
    /\ report_file = NoFile
    /\ toolchain \in {BatchToolchain, AbsentToolchain}
    /\ now = 0
    /\ previous = NoRun
    /\ main_pc = "start"
    /\ manifest = <<>>
    /\ cache = <<>>
    /\ files_to_validate = <<>>
    /\ idx = 0
    /\ passed = <<>>
    /\ failed = <<>>
    /\ executed = <<>>
    /\ exit_status = NoExit
    /\ ExampleIdle
    /\ OthersIdle
    /\ exception = "none"
    /\ decision = "none"

NextBatch ==
    \/ LoadFiles \/ ValidateAll \/ CollectFile \/ ValidateNext
    \/ ReadSource \/ Layer1 \/ Layer2 \/ Layer3 \/ Layer4 \/ Layer5
    \/ RecordResult \/ ExampleRaised \/ UpdateCache \/ Summary

SpecBatch == InitBatch /\ [][NextBatch]_vars

-----------------------------------------------------------------------------
(* SpecTwice: main() is run, and run again at once with the same command line *)

ResultPaths(results) == {results[i].file_path : i \in 1..Len(results)}

\* the process has exited and main() is started again: the disk is as the
\* first run left it, the clock has not moved
RunAgain ==
    /\ main_pc = "exit"
    /\ previous = NoRun
    /\ previous' = [passed |-> ResultPaths(passed), failed |-> ResultPaths(failed),
                    exception |-> exception]
    /\ main_pc' = "start"
    /\ manifest' = <<>>
    /\ cache' = <<>>
    /\ files_to_validate' = <<>>
    /\ idx' = 0
    /\ passed' = <<>>
    /\ failed' = <<>>
    /\ executed' = <<>>
    /\ exit_status' = NoExit
    /\ exception' = "none"
    /\ decision' = "none"
    /\ UNCHANGED <<args, manifest_file, files, toolchain, now, cache_file,
                   report_file, exampleVars, other_run, bumpVars, launchVars>>

NextTwice == NextBatch \/ RunAgain

SpecTwice == InitBatch /\ [][NextTwice]_vars

-----------------------------------------------------------------------------
(* SpecStale: should_validate called directly on one file *)

\* last_validated is at most MaxAgeHours hours old
MaxAgeHours == 200

Timestamps ==
    [fmt : {"offset", "Z", "naive"}, t : (-MaxAgeHours)..1]
      \cup {[fmt |-> "garbage"], EmptyStr}

\* cache entries with and without content_hash and last_validated
StaleCacheEntries ==
    [content_hash : {<<"sha256", 1>>, <<"sha256", 2>>}, last_validated : Timestamps]
      \cup [content_hash : {<<"sha256", 1>>}]
      \cup [last_validated : {IsoFormatUtc(-1)}]

StaleManifest == <<<<HelloPath, DefaultEntry>>, <<DeepPath, DefaultEntry>>>>

InitStale ==
    /\ args = NoArgs
    /\ manifest_file = NoFile
    /\ cache_file = NoFile
    /\ report_file = NoFile
    /\ toolchain = BatchToolchain
    /\ now = 0
    /\ previous = NoRun
    /\ main_pc = "none"
    /\ files_to_validate = <<>>
    /\ idx = 0
    /\ passed = <<>>
    /\ failed = <<>>
    /\ executed = <<>>
    /\ exit_status = NoExit
    /\ manifest_entry = <<>>
    /\ pc = "idle"
    /\ result_layers_bound = FALSE
    /\ result_layers = <<>>
    /\ cli_ret = NoCliRet
    /\ exec_ret = NoExecRet
    /\ invoked = <<>>
    /\ result = NoResult
    /\ exception = "none"
    /\ decision = "none"
    /\ OthersIdle
    /\ manifest = StaleManifest
    /\ \E rel_path \in {HelloPath, DeepPath, BadPath} :
         /\ file_path = AbsPath(rel_path)
         /\ files \in {<<>>} \cup {AbsPath(rel_path) :> [readable |-> r, utf8 |-> TRUE,
                                                      content |-> 1] : r \in BOOLEAN}
         /\ cache \in {<<>>} \cup {[files |-> (rel_path :> e)] : e \in StaleCacheEntries}

\* the call should_validate(file_path, manifest, cache)
Decide ==
    /\ decision = "none"
    /\ decision' = should_validate(file_path, manifest, cache)
    /\ UNCHANGED <<envVars, mainVars, exampleVars, exception>>

NextStale == Decide

SpecStale == InitStale /\ [][NextStale]_vars

-----------------------------------------------------------------------------
(* Observations on one validation *)

LayerOfCommand(command) ==
    CASE command = "parse" -> PARSE
      [] command = "analyze" -> ANALYZE
      [] command = "lint" -> LINT
      [] command = "run" -> EXECUTE

InvokedLayers == [i \in 1..Len(invoked) |-> LayerOfCommand(invoked[i].command)]

\* the layer of the most recent invocation, 0 before the first
LastInvokedLayer ==
    IF invoked = <<>> THEN 0 ELSE InvokedLayers[Len(invoked)]

Returned == pc = "return"

IsErrorExampleAt(layer) ==
    example_type = "error_example" /\ expected_failure_layer = layer

\* the check of the most recent invocation failed, at a hard layer
LastCheckFailed ==
    \/ LastInvokedLayer \in {PARSE, ANALYZE} /\ ~cli_ret.success
    \/ LastInvokedLayer = EXECUTE /\ exec_ret.exit_code # expected_exit_code

\* the diagnostic the code matches against the pattern
LastDiagnostic ==
    IF LastInvokedLayer = EXECUTE
    THEN StrOr(exec_ret.stderr, exec_ret.stdout)
    ELSE OrEmpty(cli_ret.error)

LastDiagnosticMatches == validate_expected_error(LastDiagnostic, expected_pattern)

AnalyzePassed ==
    \E i \in 1..Len(invoked) :
        invoked[i].command = "analyze" /\ invoked[i].success

LintInvoked == \E i \in 1..Len(invoked) : invoked[i].command = "lint"

RunInvoked == \E i \in 1..Len(invoked) : invoked[i].command = "run"

-----------------------------------------------------------------------------
(* Claims on validate_example *)

\* C1 (as claimed): for an error_example with expected_failure_layer = L,
\* L in {1,2,5}, once the layer-L check has failed with a diagnostic that
\* matches expected_error_pattern, validate_example has returned success with
\* layer L and no layer above L was invoked.
C1_ExpectedFailurePasses ==
    \A L \in {PARSE, ANALYZE, EXECUTE} :
        (/\ IsErrorExampleAt(L)
         /\ LastInvokedLayer = L
         /\ LastCheckFailed
         /\ LastDiagnosticMatches)
        => /\ Returned
           /\ result.success
           /\ result.layer = L
           /\ \A i \in 1..Len(invoked) : InvokedLayers[i] <= L

\* C2 (as claimed, for the validations that return): when the check of layer
\* L in {1,2,5} has failed and the entry is not an error_example expected to
\* fail at L, the outcome is Failed at layer L.
C2_UnexpectedFailureFails ==
    \A L \in {PARSE, ANALYZE, EXECUTE} :
        (/\ Returned
         /\ LastInvokedLayer = L
         /\ LastCheckFailed
         /\ ~IsErrorExampleAt(L))
        => ~result.success /\ result.layer = L

\* C3 (as claimed): when an error_example fails at its expected_failure_layer
\* with a diagnostic that does not match the pattern, the outcome is Failed
\* at that layer.
C3_WrongReasonFails ==
    \A L \in {PARSE, ANALYZE, EXECUTE} :
        (/\ IsErrorExampleAt(L)
         /\ LastInvokedLayer = L
         /\ LastCheckFailed
         /\ ~LastDiagnosticMatches)
        => Returned /\ ~result.success /\ result.layer = L

\* C4: the tool is invoked only for requested layers, in strictly ascending
\* order (so at most once per layer), and layer 2 or 5 is invoked only after
\* every earlier requested hard layer (1, 2) was invoked and succeeded.
C4_InvocationOrder ==
    /\ \A i \in 1..Len(invoked) : InvokedLayers[i] \in layers_to_validate
    /\ \A i, j \in 1..Len(invoked) :
          i < j => InvokedLayers[i] < InvokedLayers[j]
    /\ \A i \in 1..Len(invoked) :
          InvokedLayers[i] \in {ANALYZE, EXECUTE} =>
            \A h \in {PARSE, ANALYZE} \cap layers_to_validate :
                h < InvokedLayers[i] =>
                  \E j \in 1..(i - 1) :
                      InvokedLayers[j] = h /\ invoked[j].success

\* a failed-free run through parse, analyze, lint and execution
C4_Witness ==
    /\ Returned
    /\ InvokedLayers = <<PARSE, ANALYZE, LINT, EXECUTE>>

\* C5: once lint has been invoked after layer 1 passed (and layer 2, when
\* requested), layer 4 is in layers_passed whatever lint returned, the
\* validation is at layer 5 or has returned from it, no outcome is a failure
\* at the lint layer, and a requested, unskipped execution has been invoked
\* by the time the validation returns.
C5_LintNeverFails ==
    (LintInvoked /\ PARSE \in Range(result_layers))
    => /\ LINT \in Range(result_layers)
       /\ pc \in {"L5", "return"}
       /\ Returned =>
            /\ result.layer = EXECUTE
            /\ LINT \in Range(result.layers_passed)
            /\ (EXECUTE \in layers_to_validate /\ ~skip_execution) => RunInvoked

\* lint failed, and the execution was invoked all the same
C5_Witness ==
    /\ \E i \in 1..Len(invoked) :
          invoked[i].command = "lint" /\ ~invoked[i].success
    /\ LastInvokedLayer = EXECUTE
    /\ Returned
    /\ result.success

\* C6 (as claimed): no invocation is made for layer 3, and once the analyze
\* invocation of an entry that requests layer 3 has passed and the type-check
\* block is over, layer 3 is in layers_passed.
C6_TypecheckFolded ==
    /\ TYPECHECK \notin Range(InvokedLayers)
    /\ (/\ TYPECHECK \in layers_to_validate
        /\ AnalyzePassed
        /\ pc # "L3")
       => TYPECHECK \in Range(result_layers)

\* C7 (as claimed): after the execution, the check has succeeded exactly when
\* exit_code = expected_exit_code; then layer 5 is in layers_passed and the
\* outcome is Passed, otherwise layer 5 is not in layers_passed.
C7_ExitCodeDecides ==
    LastInvokedLayer = EXECUTE =>
        IF exec_ret.exit_code = expected_exit_code
        THEN /\ Returned
             /\ result.success
             /\ EXECUTE \in Range(result.layers_passed)
        ELSE EXECUTE \notin Range(result_layers)

-----------------------------------------------------------------------------
(* Claims on the staleness decision and the batch run *)

\* the cache entry of a manifest key, as the run loaded it
CacheFiles == Get(cache, "files", <<>>)

HasTime(ts) == ts.fmt \in {"offset", "Z", "naive"}

\* the entry of the key carries the fingerprint of the file as it is now
\* and a timestamp less than 7 days old
FreshlyCached(rel_path) ==
    /\ rel_path \in DOMAIN CacheFiles
    /\ CanReadBytes(AbsPath(rel_path))
    /\ Get(CacheFiles[rel_path], "content_hash", <<>>)
         = compute_file_hash(AbsPath(rel_path))
    /\ LET ts == Get(CacheFiles[rel_path], "last_validated", EmptyStr) IN
         /\ HasTime(ts)
         /\ now - ts.t >= 0
         /\ now - ts.t < 7 * HoursPerDay

\* the cache in memory is the one loaded at the start of the run
BeforeCacheUpdate ==
    main_pc \in {"validate_all", "collect", "validate", "single", "update_cache"}

\* C8 (as claimed, for the runs without --file): without --force, a manifest
\* file whose cache entry has its current fingerprint and a timestamp less
\* than 7 days old is not run through validate_example and is in neither the
\* passed nor the failed list.
C8_FreshIsSkipped ==
    (BeforeCacheUpdate /\ ~args.force /\ args.file = <<>>)
    => \A i \in 1..Len(manifest) :
         FreshlyCached(manifest[i][1])
         => /\ AbsPath(manifest[i][1]) \notin Range(executed)
            /\ AbsPath(manifest[i][1]) \notin ResultPaths(passed \o failed)

\* the entry of the key carries the fingerprint of the file as it is now
FreshFingerprint(rel_path) ==
    /\ rel_path \in DOMAIN CacheFiles
    /\ CanReadBytes(AbsPath(rel_path))
    /\ Get(CacheFiles[rel_path], "content_hash", <<>>)
         = compute_file_hash(AbsPath(rel_path))

\* the file has no cache entry, or its fingerprint is not the cached one
NotCachedOrChanged(rel_path) ==
    \/ rel_path \notin DOMAIN CacheFiles
    \/ /\ CanReadBytes(AbsPath(rel_path))
       /\ Get(CacheFiles[rel_path], "content_hash", <<>>)
            # compute_file_hash(AbsPath(rel_path))

\* validate_all_examples is over, by a return or by an exception
ValidationOver ==
    \/ main_pc = "update_cache"
    \/ main_pc = "exit" /\ exception # "none"

\* C9 (as claimed): should_validate returns True for a file that is not in
\* the manifest and for a manifest file on disk that has no cache entry or a
\* changed fingerprint, and in a batch run
\* every such file that passes the category filter has been run through
\* validate_example when validate_all_examples is over.
C9_StaleIsExecuted ==
    \A i \in 1..Len(manifest) :
        LET rel_path == manifest[i][1] IN
        (/\ BeforeCacheUpdate \/ ValidationOver
         /\ Exists(AbsPath(rel_path))
         /\ NotCachedOrChanged(rel_path))
        => /\ should_validate(AbsPath(rel_path), manifest, cache) = "True"
           /\ \A other \in {HelloPath, BadPath, DeepPath} \ ManifestKeys(manifest) :
                should_validate(AbsPath(other), manifest, cache) = "True"
           /\ (/\ ValidationOver
               /\ args.file = <<>>
               /\ args.category # <<>> => InCategory(rel_path, args.category))
              => AbsPath(rel_path) \in Range(executed)

\* C10 (as claimed, for a readable manifest file with the cached fingerprint
\* and a timestamp with a UTC offset): should_validate returns True whenever
\* last_validated is more than 7 x 24 hours old.
C10_OlderThanSevenDays ==
    LET rel_path == RelativeTo(file_path, TestProgramsDir)
        ts == Get(CacheFiles[rel_path], "last_validated", EmptyStr)
    IN (/\ decision # "none"
        /\ rel_path \in ManifestKeys(manifest)
        /\ FreshFingerprint(rel_path)
        /\ ts.fmt \in {"offset", "Z"}
        /\ now - ts.t > 7 * HoursPerDay)
       => decision = "True"

\* C11 (as claimed, for a readable manifest file with the cached
\* fingerprint): should_validate returns True whenever last_validated is
\* malformed, empty or absent; it never returns False for such an entry.
C11_UnparseableIsStale ==
    LET rel_path == RelativeTo(file_path, TestProgramsDir)
        ts == Get(CacheFiles[rel_path], "last_validated", EmptyStr)
    IN (/\ decision # "none"
        /\ rel_path \in ManifestKeys(manifest)
        /\ FreshFingerprint(rel_path)
        /\ ~HasTime(ts))
       => decision = "True"

-----------------------------------------------------------------------------
(* Claims on --force, --ci and the cache file *)

\* the key passes the --category restriction, if there is one
PassesCategory(rel_path) ==
    args.category # <<>> => InCategory(rel_path, args.category)

\* the key passes the --file restriction, if there is one
PassesFile(rel_path) ==
    args.file # <<>> => args.file = AbsPath(rel_path)

\* C12 (as claimed, for the manifest files that are on disk): with --force
\* should_validate is never called, and when validate_all_examples is over
\* every manifest file that passes the --category or --file restriction has
\* been run through validate_example.
C12_ForceRunsAll ==
    args.force
    => /\ decision = "none"
       /\ ValidationOver
          => \A i \in 1..Len(manifest) :
               (/\ Exists(AbsPath(manifest[i][1]))
                /\ PassesCategory(manifest[i][1])
                /\ PassesFile(manifest[i][1]))
               => AbsPath(manifest[i][1]) \in Range(executed)

\* the keys of the cache file on disk
CacheFileKeys(cf) == IF cf = NoFile THEN {} ELSE DOMAIN Get(cf.data, "files", <<>>)

\* C13: in a run with --ci no step changes the cache file on disk.
C13_CiNeverWrites == [][args.ci => cache_file' = cache_file]_vars

\* a --ci run is over, it has executed and passed a file that has no entry
\* in the cache file
C13_Witness ==
    /\ args.ci
    /\ main_pc = "exit"
    /\ exception = "none"
    /\ \E i \in 1..Len(passed) :
         RelativeTo(passed[i].file_path, TestProgramsDir) \notin CacheFileKeys(cache_file)

\* the entry of the key is in the cache file after the step as it was before
EntryKept(rel_path) ==
    /\ rel_path \in CacheFileKeys(cache_file')
    /\ cache_file'.data.files[rel_path] = cache_file.data.files[rel_path]

\* C14 (as claimed): in a run without --ci no step changes or removes the
\* cache-file entry of a file that validate_example was not called on.
C14_OthersUntouched ==
    [][~args.ci
       => \A rel_path \in CacheFileKeys(cache_file) :
            AbsPath(rel_path) \notin Range(executed) => EntryKept(rel_path)]_vars

\* the cache file holds for the file the entry that the result calls for
EntryWritten(r) ==
    LET rel_path == RelativeTo(r.file_path, TestProgramsDir) IN
    /\ rel_path \in CacheFileKeys(cache_file)
    /\ CanReadBytes(r.file_path)
    /\ LET entry == cache_file.data.files[rel_path] IN
         /\ Get(entry, "content_hash", <<>>) = compute_file_hash(r.file_path)
         /\ Get(entry, "validation_result", "") = IF r.success THEN "pass" ELSE "fail"
         /\ Get(entry, "layers_passed", <<"none">>) = r.layers_passed

\* C15 (as claimed): when a run without --ci is over, every file that
\* validate_example was called on has a result, and its entry in the cache
\* file carries the fingerprint of the file, 'pass' or 'fail' after the
\* result, and the layers_passed of the result.
C15_ExecutedAreCached ==
    (main_pc = "exit" /\ ~args.ci)
    => \A i \in 1..Len(executed) :
         \E j \in 1..Len(passed \o failed) :
           /\ (passed \o failed)[j].file_path = executed[i]
           /\ EntryWritten((passed \o failed)[j])

-----------------------------------------------------------------------------
(* Claims on two runs in succession *)

\* C16 (as claimed, for the runs without --file): when main() is run twice
\* in succession without --ci and without --force and nothing has changed on
\* disk in between, validate_example is not called in the second run on any
\* file that passed in the first run.
C16_SecondRunSkipsPassed ==
    (previous # NoRun /\ ~args.ci /\ ~args.force /\ args.file = <<>>)
    => \A path \in previous.passed : path \notin Range(executed)

-----------------------------------------------------------------------------
(* Claims on the result lists, the report and the exit status *)

\* the number of results for the file in the two lists together
Occurrences(path) ==
    Cardinality({j \in 1..Len(passed \o failed) : (passed \o failed)[j].file_path = path})

\* the manifest files that the loop of lines 371-387 skips on the word of
\* should_validate
SkippedByDecider ==
    {rel_path \in ManifestKeys(manifest) :
       /\ args.file = <<>>
       /\ ~args.force
       /\ Exists(AbsPath(rel_path))
       /\ PassesCategory(rel_path)
       /\ should_validate(AbsPath(rel_path), manifest, cache) = "False"}

\* C17 (as claimed): in any run the passed and the failed list have no file
\* in common and a skipped file is in neither; when the run is over every
\* executed file is exactly once in the two lists together, and
\* len(passed) + len(failed) is the number of executed files.
C17_ListsPartitionExecuted ==
    /\ ResultPaths(passed) \cap ResultPaths(failed) = {}
    /\ BeforeCacheUpdate
       => \A rel_path \in SkippedByDecider :
            AbsPath(rel_path) \notin ResultPaths(passed \o failed)
    /\ main_pc = "exit"
       => /\ \A i \in 1..Len(executed) : Occurrences(executed[i]) = 1
          /\ Len(passed) + Len(failed) = Len(executed)

\* the files skipped in this run, seen after the cache was updated
SkippedThisRun ==
    {rel_path \in SkippedByDecider : AbsPath(rel_path) \notin Range(executed)}

\* the entry of the failures list that generate_report owes to a result
FailureOf(r) ==
    [file |-> r.file_path, layer |-> r.layer, layer_name |-> LayerName(r.layer),
     error |-> r.error]

\* C18 (as claimed): in the report that was written,
\* passed + failed = validated = total_examples - (files skipped in this
\* run), and failures has one element per failed result, with its file,
\* layer number, layer name and error.
C18_ReportCounts ==
    report_file # NoFile
    => LET report == report_file.data IN
       /\ report.passed + report.failed = report.validated
       /\ report.validated = report.total_examples - Cardinality(SkippedThisRun)
       /\ Len(report.failures) = Len(failed)
       /\ \A i \in 1..Len(failed) : report.failures[i] = FailureOf(failed[i])

\* C19 (as claimed): when the process has exited, the exit status is 0
\* exactly if the manifest file exists and no validated file failed, and it
\* is 1 if a validated file failed or the manifest file is missing.
C19_ExitStatus ==
    main_pc = "exit"
    => /\ exit_status = 0 <=> (manifest_file # NoFile /\ failed = <<>>)
       /\ (failed # <<>> \/ manifest_file = NoFile) => exit_status = 1

\* an invocation for the current file has found no binary
AbsenceDetected == toolchain = AbsentToolchain /\ invoked # <<>>

\* C20 (as claimed): once an invocation has found the toolchain binary
\* absent, validate_example is called on no further file, and the process
\* does not exit with status 0.
C20_AbsentToolchainAborts ==
    /\ [][AbsenceDetected => executed' = executed]_vars
    /\ []((AbsenceDetected /\ main_pc = "exit") => exit_status # 0)

-----------------------------------------------------------------------------
(* Claims on errors of one file *)

\* a manifest file on disk whose text cannot be read, and that this run
\* has to validate
UnreadableToValidate ==
    {rel_path \in ManifestKeys(manifest) :
       /\ Exists(AbsPath(rel_path))
       /\ ~CanReadText(AbsPath(rel_path))
       /\ PassesCategory(rel_path)
       /\ PassesFile(rel_path)
       /\ rel_path \notin SkippedThisRun}

\* the failed list has a Parse-layer failure for the file
FailedAtParse(path) ==
    \E i \in 1..Len(failed) :
        failed[i].file_path = path /\ failed[i].layer = PARSE

\* C21 (as claimed): when the process has exited after a run over a manifest
\* with a file that cannot be read, that file has a failed result at the
\* Parse layer and the run has come to its end through the cache update
\* and the summary, not through an exception.
C21_UnreadableFailsAtParse ==
    (main_pc = "exit" /\ UnreadableToValidate # {})
    => /\ exception = "none"
       /\ \A rel_path \in UnreadableToValidate : FailedAtParse(AbsPath(rel_path))

\* C22 (as claimed): a pattern that does not compile matches no diagnostic,
\* and when an error_example fails at its expected_failure_layer with such
\* a pattern, validate_example has returned a Failed outcome at that layer.
C22_BadPatternFails ==
    ~PatternCompiles(expected_pattern)
    => /\ ~validate_expected_error(LastDiagnostic, expected_pattern)
       /\ \A L \in {PARSE, ANALYZE, EXECUTE} :
            (IsErrorExampleAt(L) /\ LastInvokedLayer = L /\ LastCheckFailed)
            => Returned /\ ~result.success /\ result.layer = L

\* the file was executed and exited with expected_exit_code
ExitedAsExpected == RunInvoked /\ exec_ret.exit_code = expected_exit_code

\* the elements of the set of layers in ascending order
RECURSIVE Ascending(_)
Ascending(layers) ==
    IF layers = {} THEN <<>>
    ELSE LET least == CHOOSE l \in layers : \A m \in layers : l <= m
         IN <<least>> \o Ascending(layers \ {least})

\* validate_example is over for the file, by a return or by an exception
ExampleOver == pc \in {"return", "raise"}

\* C23 (as claimed): when validate_example is over for an executable entry
\* whose file was read, whose parse, analyze and lint calls all succeeded
\* and whose execution exited with expected_exit_code, it has returned
\* success and layers_passed is validate_layers in ascending order.
C23_AllChecksPass ==
    (/\ ExampleOver
     /\ example_type = "executable"
     /\ CanReadText(file_path)
     /\ {PARSE, ANALYZE, LINT} \cap layers_to_validate
          \subseteq {InvokedLayers[i] : i \in 1..Len(invoked)}
     /\ \A i \in 1..Len(invoked) :
          invoked[i].command # "run" => invoked[i].success
     /\ ExitedAsExpected)
    => /\ Returned
       /\ result.success
       /\ result.layers_passed = Ascending(layers_to_validate)

\* the requested layers for which the adapter is called
CallingLayers ==
    (layers_to_validate \cap {PARSE, ANALYZE, LINT})
      \cup (IF EXECUTE \in layers_to_validate /\ ~skip_execution
            THEN {EXECUTE} ELSE {})

\* C24 (as claimed): for every validate_layers, validate_example makes its
\* first adapter call for the smallest requested layer that has one, never
\* ends in an exception, and when it is over it has returned one outcome.
C24_OneOutcome ==
    /\ invoked # <<>> => \A l \in CallingLayers : InvokedLayers[1] <= l
    /\ pc # "raise"
    /\ ExampleOver => result # NoResult /\ result.success \in BOOLEAN

-----------------------------------------------------------------------------
(* Claims on the adapter *)

\* the process was started and exited with code 0
ExitedZero(beh) == beh.kind = "exit" /\ beh.returncode = 0

\* C25: for whatever the binary does when it is called (missing, timeout,
\* launch error, any exit code), validate_with_cli returns a pair with
\* success exactly if the process exited with code 0 and with a diagnostic
\* otherwise, and execute_wfl_file returns a triple whose exit code is 0
\* only if the process exited with code 0.
C25_AdapterNeverRaises ==
    /\ \A beh \in toolchain.check :
         LET ret == validate_with_cli(beh) IN
         /\ DOMAIN ret = {"success", "error"}
         /\ ret.success <=> ExitedZero(beh)
         /\ ~ret.success => ret.error # NoText
    /\ \A beh \in toolchain.run :
         LET ret == execute_wfl_file(beh) IN
         /\ DOMAIN ret = {"exit_code", "stdout", "stderr"}
         /\ ret.exit_code = 0 => ExitedZero(beh)
         /\ ~ExitedZero(beh) /\ beh.kind # "exit" => ret.exit_code = -1

\* the adapter was called and the call ran into its timeout: a check of
\* layer 1 or 2 has failed with the timeout diagnostic
C25_Witness ==
    /\ LastInvokedLayer \in {PARSE, ANALYZE}
    /\ cli_ret = [success |-> FALSE, error |-> SomeText(MsgCliTimeout)]
    /\ Returned
    /\ ~result.success

\* C26 (as claimed): every adapter call made for an entry is given the
\* entry's timeout_seconds (30 when the key is absent) as its timeout.
C26_TimeoutOfEntry ==
    \A i \in 1..Len(invoked) : invoked[i].timeout = timeout

-----------------------------------------------------------------------------
(* Claims on --category and --file *)

\* C27 (as claimed): with --category and no --file, validate_example is
\* called only on files under the category, and when validate_all_examples
\* is over it has been called on every manifest file on disk under the
\* category that has no cache entry or a changed fingerprint; with --file it
\* is called on that file only, and once if the file is in the manifest,
\* whatever --category says.
C27_CategoryAndFile ==
    /\ (args.file = <<>> /\ args.category # <<>>)
       => /\ \A i \in 1..Len(executed) :
               InCategory(RelativeTo(executed[i], TestProgramsDir), args.category)
          /\ ValidationOver
             => \A rel_path \in ManifestKeys(manifest) :
                  (/\ InCategory(rel_path, args.category)
                   /\ Exists(AbsPath(rel_path))
                   /\ NotCachedOrChanged(rel_path))
                  => AbsPath(rel_path) \in Range(executed)
    /\ args.file # <<>>
       => /\ \A i \in 1..Len(executed) : executed[i] = args.file
          /\ (/\ ValidationOver
              /\ RelativeTo(args.file, TestProgramsDir) \in ManifestKeys(manifest))
             => executed = <<args.file>>

-----------------------------------------------------------------------------
(* Claims on error examples *)

\* the pattern occurs in the text: re.search(pattern, text, re.IGNORECASE)
Occurs(pattern, text) == validate_expected_error(text, pattern)

\* C28 (as claimed): when validate_example has returned for an
\* error_example whose execution did not exit with expected_exit_code, and
\* the pattern occurs in stderr or in stdout, the outcome is success at
\* layer 5.
C28_EitherStream ==
    (/\ Returned
     /\ example_type = "error_example"
     /\ LastInvokedLayer = EXECUTE
     /\ exec_ret.exit_code # expected_exit_code
     /\ \/ Occurs(expected_pattern, exec_ret.stderr)
        \/ Occurs(expected_pattern, exec_ret.stdout))
    => result.success /\ result.layer = EXECUTE

\* C29 (as claimed): when validate_example has returned success for an
\* error_example with expected_failure_layer = L, the outcome is at layer
\* L, the last check made was the one of layer L, it failed, and its
\* diagnostic matches expected_error_pattern.
C29_PassOnlyOnExpectedFailure ==
    \A L \in Layers :
        (Returned /\ result.success /\ IsErrorExampleAt(L))
        => /\ result.layer = L
           /\ LastInvokedLayer = L
           /\ LastCheckFailed
           /\ LastDiagnosticMatches

\* the cache entry of the key records a failed validation
CachedAsFailed(rel_path) ==
    /\ rel_path \in DOMAIN CacheFiles
    /\ Get(CacheFiles[rel_path], "validation_result", "") = "fail"

\* C30 (as claimed): should_validate does not return False for a manifest
\* file whose cache entry records validation_result = 'fail'; and when the
\* second of two runs in succession without --ci and without --force has
\* exited with status 0, validate_example was called in it on every file
\* that failed in the first run.
C30_FailedIsNeverSkipped ==
    /\ BeforeCacheUpdate
       => \A rel_path \in ManifestKeys(manifest) :
            (CachedAsFailed(rel_path) /\ CanReadBytes(AbsPath(rel_path)))
            => should_validate(AbsPath(rel_path), manifest, cache) # "False"
    /\ (/\ previous # NoRun
        /\ ~args.ci
        /\ ~args.force
        /\ main_pc = "exit"
        /\ exit_status = 0)
       => \A path \in previous.failed : path \in Range(executed)

-----------------------------------------------------------------------------
(* Claims on timeouts, layers_passed and the recorded layer *)

\* the most recent invocation ran into its timeout, at a hard layer
LastTimedOut ==
    \/ /\ LastInvokedLayer \in {PARSE, ANALYZE}
       /\ cli_ret = validate_with_cli([kind |-> "timeout"])
    \/ /\ LastInvokedLayer = EXECUTE
       /\ exec_ret = execute_wfl_file([kind |-> "timeout"])

\* C31 (as claimed): when validate_example is over and its last invocation,
\* at layer 1, 2 or 5, timed out, it has returned an outcome at that layer
\* which does not list the layer as passed and which is a success only for
\* an error_example whose pattern matches the timeout diagnostic.
C31_TimeoutFailsLayer ==
    (ExampleOver /\ LastTimedOut)
    => /\ Returned
       /\ result.layer = LastInvokedLayer
       /\ LastInvokedLayer \notin Range(result.layers_passed)
       /\ result.success
            => example_type = "error_example" /\ LastDiagnosticMatches

\* validate_example returned because the file could not be read or because
\* the check of a hard layer failed
EndedOnFailure == Returned /\ (~result.success \/ LastCheckFailed)

\* the layer of that failure: PARSE for a file that could not be read
FailureLayer == IF invoked = <<>> THEN PARSE ELSE LastInvokedLayer

StrictlyAscending(layers) ==
    \A i, j \in 1..Len(layers) : i < j => layers[i] < layers[j]

\* C33: in every outcome returned by validate_example, layers_passed is
\* strictly ascending, holds only layers of validate_layers, and, when the
\* run ended on a failure (genuine or expected), holds only layers below the
\* layer of that failure.
C33_LayersPassedSound ==
    Returned
    => /\ StrictlyAscending(result.layers_passed)
       /\ Range(result.layers_passed) \subseteq layers_to_validate
       /\ EndedOnFailure
            => \A l \in Range(result.layers_passed) : l < FailureLayer

\* C33 (witness): an expected failure at layer 2 is a pass that lists layer 1
\* and not layer 2
C33_Witness ==
    /\ Returned
    /\ result.success
    /\ LastCheckFailed
    /\ LastInvokedLayer = ANALYZE
    /\ result.layers_passed = <<PARSE>>

\* C34 (as claimed): an error_example that sets expected_failure_layer = L,
\* L in {1,2,5}, and has no expected_error_pattern gets the empty pattern,
\* which matches the diagnostic; once its layer-L check has failed,
\* validate_example has returned success at layer L.
C34_MissingPatternMatchesAll ==
    \A L \in {PARSE, ANALYZE, EXECUTE} :
        (/\ IsErrorExampleAt(L)
         /\ "expected_error_pattern" \notin DOMAIN manifest_entry
         /\ LastInvokedLayer = L
         /\ LastCheckFailed)
        => /\ expected_pattern = <<>>
           /\ LastDiagnosticMatches
           /\ Returned
           /\ result.success
           /\ result.layer = L

\* the last layer of validate_layers
LastRequested ==
    CHOOSE l \in layers_to_validate : \A m \in layers_to_validate : m <= l

\* C35 (as claimed): the layer of a returned outcome is the layer of the
\* failure when the run ended on a failure, and the last layer of
\* validate_layers when every requested layer passed.
C35_LayerRecorded ==
    Returned
    => IF EndedOnFailure
       THEN result.layer = FailureLayer
       ELSE layers_to_validate # {} => result.layer = LastRequested

\* C35 (amended): the layer of a returned outcome is the layer of the failure
\* when the run ended on a failure, and EXECUTE (layer 5) when it did not,
\* whatever validate_layers is.
C35_LayerRecordedOrExecute ==
    Returned
    => result.layer = IF EndedOnFailure THEN FailureLayer ELSE EXECUTE

\* C35 (witness): an entry that does not request layer 5 passes, and the
\* outcome records layer 5
C35_Witness ==
    /\ Returned
    /\ ~EndedOnFailure
    /\ EXECUTE \notin layers_to_validate
    /\ layers_to_validate # {}
    /\ result.layer = EXECUTE

-----------------------------------------------------------------------------
(* Claims on the order of a batch run *)

\* the position of the key in the manifest
KeyIndex(rel_path) == CHOOSE i \in 1..Len(manifest) : manifest[i][1] = rel_path

\* the paths are in the order of their keys in the manifest
InKeyOrder(paths) ==
    \A i, j \in 1..Len(paths) :
        i < j => KeyIndex(RelativeTo(paths[i], TestProgramsDir))
                   < KeyIndex(RelativeTo(paths[j], TestProgramsDir))

\* the files of the results, in the order of the list
ResultSeq(results) == [i \in 1..Len(results) |-> results[i].file_path]

\* the number of outcomes recorded so far
Outcomes == Len(passed) + Len(failed)

\* the outcomes recorded so far are those of the first files that
\* validate_example was called on, and at most one file has no outcome yet
OneAtATime ==
    /\ Outcomes <= Len(executed)
    /\ Len(executed) <= Outcomes + 1
    /\ ResultPaths(passed \o failed) = {executed[i] : i \in 1..Outcomes}

\* C36: in a batch run validate_example is called on the files in manifest
\* key order, each outcome is recorded before the next file is entered (so
\* the outcomes, in order of completion, follow the key order, and so do
\* passed and failed), and every tool invocation is made for the file
\* entered last, while all files before it have their outcome.
C36_ManifestOrder ==
    /\ [](args.file = <<>>
            => /\ InKeyOrder(executed)
               /\ InKeyOrder(ResultSeq(passed))
               /\ InKeyOrder(ResultSeq(failed))
               /\ OneAtATime)
    /\ [][(invoked' # invoked /\ invoked' # <<>>)
            => /\ file_path = executed[Len(executed)]
               /\ executed' = executed
               /\ Outcomes = Len(executed) - 1]_vars
    /\ [][executed' # executed
            => /\ pc = "idle"
               /\ invoked' = <<>>
               /\ Outcomes = Len(executed)]_vars

\* C36 (witness): a batch run is over, it has validated two files, the one
\* passed and the other failed
C36_Witness ==
    /\ args.file = <<>>
    /\ main_pc = "exit"
    /\ exception = "none"
    /\ Len(executed) = 2
    /\ Len(passed) = 1
    /\ Len(failed) = 1

-----------------------------------------------------------------------------
(* SpecOverlap: two runs of main() without --ci on the same cache file.     *)
(* Both load the cache before either writes it.  One run is scheduled at a  *)
(* time and other_run holds the variables of the run that is not; the runs  *)
(* meet only in the cache file, so a run is descheduled only after it has   *)
(* loaded, before it opens the cache file, between the open and the dump,   *)
(* and when it has exited.                                                  *)

\* the variables of the run that is scheduled
LocalState ==
    [args |-> args, main_pc |-> main_pc, manifest |-> manifest, cache |-> cache,
     files_to_validate |-> files_to_validate, idx |-> idx, passed |-> passed,
     failed |-> failed, executed |-> executed, exit_status |-> exit_status,
     file_path |-> file_path, manifest_entry |-> manifest_entry, pc |-> pc,
     result_layers_bound |-> result_layers_bound,
     result_layers |-> result_layers, cli_ret |-> cli_ret,
     exec_ret |-> exec_ret, invoked |-> invoked, result |-> result,
     exception |-> exception, decision |-> decision]

\* hello.wfl and bad.wfl, both changed since they were cached, and
\* deep.wfl, which is not cached and whose entry asks for no parse
OverlapCorpus ==
    [keys |-> <<HelloPath, BadPath, DeepPath>>,
     variant |->
       <<[entry |-> DefaultEntry, file |-> OkFile,
          cached |-> Cached(CacheEntry(2, IsoFormatUtc(-1), "pass", <<1>>))],
         [entry |-> ErrorEntry, file |-> OkFile,
          cached |-> Cached(CacheEntry(2, IsoFormatUtc(-1), "pass", <<1>>))],
         [entry |-> NoParseEntry, file |-> OkFile, cached |-> NotCached]>>]

\* the command lines of the two runs
OverlapArgs ==
    [category : {<<>>},
     file : {<<>>, AbsPath(HelloPath), AbsPath(BadPath), AbsPath(DeepPath)},
     ci : {FALSE}, force : {FALSE}, report : {FALSE}]

\* lines 485-501: a run with the command line that has loaded the manifest
\* and the cache of the corpus
Loaded(a) ==
    [args |-> a, main_pc |-> "validate_all",
     manifest |-> WithoutSchemaKeys(ManifestOf(OverlapCorpus)),
     cache |-> CacheFileOf(OverlapCorpus).data,
     files_to_validate |-> <<>>, idx |-> 0, passed |-> <<>>, failed |-> <<>>,
     executed |-> <<>>, exit_status |-> NoExit, file_path |-> <<>>,
     manifest_entry |-> <<>>, pc |-> "idle", result_layers_bound |-> FALSE,
     result_layers |-> <<>>, cli_ret |-> NoCliRet, exec_ret |-> NoExecRet,
     invoked |-> <<>>, result |-> NoResult, exception |-> "none",
     decision |-> "none"]

\* the lines json.dump(..., indent=2) writes for a list
ListLines(list) == IF list = <<>> THEN 1 ELSE Len(list) + 2

\* the lines it writes for one entry of "files": the key, one line for each
\* field that is not a list, the list, the closing brace
EntryLines(entry) ==
    2 + Cardinality(DOMAIN entry \ {"layers_passed"})
      + (IF "layers_passed" \in DOMAIN entry
         THEN ListLines(entry.layers_passed) ELSE 0)

RECURSIVE FilesLines(_)
FilesLines(cache_files) ==
    IF DOMAIN cache_files = {} THEN 0
    ELSE LET key == CHOOSE k \in DOMAIN cache_files : TRUE
         IN EntryLines(cache_files[key])
              + FilesLines([k \in DOMAIN cache_files \ {key} |-> cache_files[k]])

\* the length of the text json.dump(cache, f, indent=2) writes, in lines
TextLength(data) ==
    2 + Cardinality(DOMAIN data \ {"files"})
      + (IF "files" \notin DOMAIN data THEN 0
         ELSE IF DOMAIN data.files = {} THEN 1
         ELSE 2 + FilesLines(data.files))

\* the cache file after open(cache_file, 'w'): it is there and it is empty
EmptyFile == [exists |-> TRUE, empty |-> TRUE]

\* the text that is in the file: of one dump, or of nothing
Longest(file) ==
    IF "data" \in DOMAIN file THEN [some |-> TRUE, data |-> file.data]
    ELSE IF "rest" \in DOMAIN file THEN [some |-> TRUE, data |-> file.rest]
    ELSE [some |-> FALSE]

\* the file after the text of data is written from offset 0 and the file is
\* closed: a write does not truncate, so what the file holds beyond the end
\* of the new text stays
Overwritten(file, data) ==
    IF Longest(file).some /\ TextLength(Longest(file).data) > TextLength(data)
    THEN [exists |-> TRUE, head |-> data, rest |-> Longest(file).data]
    ELSE [exists |-> TRUE, data |-> data]

\* OpenCacheFile that takes the entries of "files" from the cache file as it
\* is on disk at that moment
OpenCacheFile_Merging ==
    /\ main_pc = "update_cache"
    /\ LET results == passed \o failed IN
       IF args.ci
       THEN /\ main_pc' = "summary"
            /\ UNCHANGED <<cache, cache_file, exception, exit_status>>
       ELSE IF \E i \in 1..Len(results) : ~CanReadBytes(results[i].file_path)
       THEN /\ Uncaught("OSError")
            /\ UNCHANGED <<cache, cache_file>>
       ELSE \E beh \in toolchain.version :
              LET on_disk == IF "data" \in DOMAIN cache_file
                             THEN Get(cache_file.data, "files", <<>>)
                             ELSE Get(cache, "files", <<>>)
                  written ==
                    ("files" :> update_cache(on_disk, results))
                    @@ ("wfl_version" :> get_wfl_version(beh))
                    @@ ("last_full_validation" :> IsoFormatUtc(now))
                    @@ cache
              IN /\ cache' = written
                 /\ cache_file' = EmptyFile
                 /\ main_pc' = "dump"
                 /\ UNCHANGED <<exception, exit_status>>
    /\ UNCHANGED <<envVars, report_file, manifest, files_to_validate, idx,
                   passed, failed, executed, exampleVars, decision>>

\* lines 516-522, the first step of UpdateCache: update the cache in memory
\* and open the cache file for writing, which truncates it
OpenCacheFile ==
    /\ main_pc = "update_cache"
    /\ LET results == passed \o failed IN
       IF args.ci
       THEN /\ main_pc' = "summary"
            /\ UNCHANGED <<cache, cache_file, exception, exit_status>>
       ELSE IF \E i \in 1..Len(results) : ~CanReadBytes(results[i].file_path)
       THEN /\ Uncaught("OSError")
            /\ UNCHANGED <<cache, cache_file>>
       ELSE \E beh \in toolchain.version :
              LET written ==
                    ("files" :> update_cache(Get(cache, "files", <<>>), results))
                    @@ ("wfl_version" :> get_wfl_version(beh))
                    @@ ("last_full_validation" :> IsoFormatUtc(now))
                    @@ cache
              IN /\ cache' = written
                 /\ cache_file' = EmptyFile
                 /\ main_pc' = "dump"
                 /\ UNCHANGED <<exception, exit_status>>
    /\ UNCHANGED <<envVars, report_file, manifest, files_to_validate, idx,
                   passed, failed, executed, exampleVars, decision>>

\* lines 522-523, the second step of UpdateCache: json.dump writes the text
\* from the start of the file, and the file is closed
DumpCacheFile ==
    /\ main_pc = "dump"
    /\ cache_file' = Overwritten(cache_file, cache)
    /\ main_pc' = "summary"
    /\ UNCHANGED <<envVars, report_file, manifest, cache, files_to_validate,
                   idx, passed, failed, executed, exit_status, exampleVars,
                   exception, decision>>

\* the scheduler takes the run off the processor and puts the other run on
Switch ==
    /\ other_run # NoOther
    /\ other_run.main_pc # "exit"
    /\ \/ main_pc = "validate_all" /\ other_run.main_pc = "validate_all"
       \/ main_pc \in {"update_cache", "dump", "exit"}
    /\ other_run' = LocalState
    /\ args' = other_run.args
    /\ main_pc' = other_run.main_pc
    /\ manifest' = other_run.manifest
    /\ cache' = other_run.cache
    /\ files_to_validate' = other_run.files_to_validate
    /\ idx' = other_run.idx
    /\ passed' = other_run.passed
    /\ failed' = other_run.failed
    /\ executed' = other_run.executed
    /\ exit_status' = other_run.exit_status
    /\ file_path' = other_run.file_path
    /\ manifest_entry' = other_run.manifest_entry
    /\ pc' = other_run.pc
    /\ result_layers_bound' = other_run.result_layers_bound
    /\ result_layers' = other_run.result_layers
    /\ cli_ret' = other_run.cli_ret
    /\ exec_ret' = other_run.exec_ret
    /\ invoked' = other_run.invoked
    /\ result' = other_run.result
    /\ exception' = other_run.exception
    /\ decision' = other_run.decision
    /\ UNCHANGED <<manifest_file, files, toolchain, now, previous, cache_file,
                   report_file, bumpVars, launchVars>>

\* the one run has loaded the manifest and the cache, the other is started
InitOverlap ==
    /\ args \in OverlapArgs
    /\ other_run \in {Loaded(a) : a \in OverlapArgs}
    /\ manifest_file = [exists |-> TRUE, data |-> ManifestOf(OverlapCorpus)]
    /\ files = FilesOf(OverlapCorpus)
    /\ cache_file = CacheFileOf(OverlapCorpus)
    /\ report_file = NoFile
    /\ toolchain = BatchToolchain
    /\ now = 0
    /\ previous = NoRun
    /\ main_pc = "start"
    /\ manifest = <<>>
    /\ cache = <<>>
    /\ files_to_validate = <<>>
    /\ idx = 0
    /\ passed = <<>>
    /\ failed = <<>>
    /\ executed = <<>>
    /\ exit_status = NoExit
    /\ ExampleIdle
    /\ BumpIdle
    /\ LaunchIdle
    /\ exception = "none"
    /\ decision = "none"

NextOverlap ==
    \/ LoadFiles \/ Switch \/ ValidateAll \/ CollectFile \/ ValidateNext
    \/ ReadSource \/ Layer1 \/ Layer2 \/ Layer3 \/ Layer4 \/ Layer5
    \/ RecordResult \/ ExampleRaised \/ OpenCacheFile \/ DumpCacheFile
    \/ Summary

SpecOverlap == InitOverlap /\ [][NextOverlap]_vars

-----------------------------------------------------------------------------
(* Claims on two overlapping runs *)

\* both runs are over
BothFinished == main_pc = "exit" /\ other_run.main_pc = "exit"

\* the run went as far as writing the cache file: nothing was raised
WroteCache(run) == run.main_pc = "exit" /\ run.exception = "none"

\* the run that wrote last is the run that exited last, which is the run
\* that is scheduled when both are over; its cache, and the cache of the
\* run that wrote before it
LastWritten == IF WroteCache(LocalState) THEN cache ELSE other_run.cache

EarlierWritten == other_run.cache

\* the keys whose entries the run updated
UpdatedBy(run) ==
    {RelativeTo(r.file_path, TestProgramsDir) :
       r \in Range(run.passed \o run.failed)}

\* the entry of the key is in the file as both runs loaded it
AsLoaded(rel_path) ==
    /\ rel_path \in DOMAIN cache_file.data.files
    /\ cache_file.data.files[rel_path]
         = CacheFileOf(OverlapCorpus).data.files[rel_path]

DumpsInto(file) == main_pc = "dump" /\ main_pc' = "summary" /\ cache_file = file

-----------------------------------------------------------------------------
(* scripts/bump_version.py: get_current_version and bump_version.  The      *)
(* metadata is a JSON object, a function from the keys that are present to  *)
(* numbers; a version string "Y.M.B" is the sequence of its three numbers.  *)

\* the build numbers stored at the start go up to MaxBuild
MaxBuild == 3

\* the clock runs to the end of the year LastYear
LastYear == 2100

NoReturn == [none |-> TRUE]

\* every step of validate_docs_examples.py leaves these alone
validationVars ==
    <<args, manifest_file, files, toolchain, now, previous, other_run, mainVars,
      exampleVars, exception, decision>>

\* no run of validate_docs_examples.py is in progress
ValidationIdle ==
    /\ MainIdle
    /\ ExampleIdle
    /\ files = <<>>
    /\ toolchain = AbsentToolchain
    /\ other_run = NoOther
    /\ exception = "none"
    /\ decision = "none"

\* a file that is there and is not JSON
NotJson == [exists |-> TRUE, valid |-> FALSE]

\* f"{year}.{month}.{build}"
VersionString(year, month, build) == <<year, month, build>>

\* get_current_version: (meta, version), or the exit status of sys.exit
get_current_version(meta_file, day) ==
    IF ~meta_file.exists THEN [exit |-> 1]
    ELSE IF "data" \notin DOMAIN meta_file THEN [exit |-> 1]
    ELSE LET meta == meta_file.data
             year == Get(meta, "year", day.year % 100)
             month == Get(meta, "month", day.month)
             build == Get(meta, "build", 1)
         IN [exit |-> NoExit, meta |-> meta,
             version |-> VersionString(year, month, build)]

\* bump_version that starts a new series of builds only when the year changes
bump_version_yearly(meta_file, vfile, day, skip) ==
    LET current == get_current_version(meta_file, day) IN
    IF current.exit # NoExit
    THEN [exit |-> current.exit, meta_file |-> meta_file, version_file |-> vfile,
          ret |-> NoReturn, modified |-> <<>>]
    ELSE IF skip
    THEN [exit |-> NoExit, meta_file |-> meta_file, version_file |-> vfile,
          ret |-> [meta |-> current.meta, version |-> current.version],
          modified |-> <<>>]
    ELSE
      LET meta == current.meta
          current_year == day.year % 100
          current_month == day.month
          last_year == Get(meta, "year", current_year)
          last_month == Get(meta, "month", current_month)
          reset == current_year # last_year
          build_num == IF reset THEN 1 ELSE Get(meta, "build", 1) + 1
          new_meta ==
            IF reset
            THEN ("build" :> build_num) @@ ("year" :> current_year)
                   @@ ("month" :> current_month) @@ meta
            ELSE ("build" :> build_num) @@ meta
          new_version == VersionString(current_year, current_month, build_num)
      IN [exit |-> NoExit,
          meta_file |-> [exists |-> TRUE, data |-> new_meta],
          version_file |-> [exists |-> TRUE, version |-> new_version],
          ret |-> [meta |-> new_meta, version |-> new_version],
          modified |-> <<".build_meta.json", "src/version.rs">>]

\* bump_version(skip_bump): the two files after the call, what is returned
\* (or the exit status), and what is appended to MODIFIED_FILES
bump_version(meta_file, vfile, day, skip) ==
    LET current == get_current_version(meta_file, day) IN
    IF current.exit # NoExit
    THEN [exit |-> current.exit, meta_file |-> meta_file, version_file |-> vfile,
          ret |-> NoReturn, modified |-> <<>>]
    ELSE IF skip
    THEN [exit |-> NoExit, meta_file |-> meta_file, version_file |-> vfile,
          ret |-> [meta |-> current.meta, version |-> current.version],
          modified |-> <<>>]
    ELSE
      LET meta == current.meta
          current_year == day.year % 100
          current_month == day.month
          last_year == Get(meta, "year", current_year)
          last_month == Get(meta, "month", current_month)
          reset == current_year # last_year \/ current_month # last_month
          build_num == IF reset THEN 1 ELSE Get(meta, "build", 1) + 1
          new_meta ==
            IF reset
            THEN ("build" :> build_num) @@ ("year" :> current_year)
                   @@ ("month" :> current_month) @@ meta
            ELSE ("build" :> build_num) @@ meta
          new_version == VersionString(current_year, current_month, build_num)
      IN [exit |-> NoExit,
          meta_file |-> [exists |-> TRUE, data |-> new_meta],
          version_file |-> [exists |-> TRUE, version |-> new_version],
          ret |-> [meta |-> new_meta, version |-> new_version],
          modified |-> <<".build_meta.json", "src/version.rs">>]

\* the call bump_version(skip_bump) in a process that has not called it yet
BumpVersion ==
    /\ bump_ret = NoReturn
    /\ bump_exit = NoExit
    /\ \E skip \in BOOLEAN :
         LET call == bump_version(build_meta_file, version_file, today, skip) IN
         /\ skip_bump' = skip
         /\ build_meta_file' = call.meta_file
         /\ version_file' = call.version_file
         /\ bump_ret' = call.ret
         /\ bump_exit' = call.exit
         /\ modified_files' = modified_files \o call.modified
    /\ UNCHANGED <<today, validationVars, launchVars>>

\* the process is over and the script is started again
StartAgain ==
    /\ bump_ret # NoReturn \/ bump_exit # NoExit
    /\ "data" \in DOMAIN build_meta_file
         => Get(build_meta_file.data, "build", 1) <= MaxBuild
    /\ skip_bump' = FALSE
    /\ bump_ret' = NoReturn
    /\ bump_exit' = NoExit
    /\ modified_files' = <<>>
    /\ UNCHANGED <<build_meta_file, version_file, today, validationVars,
                   launchVars>>

\* the month is over
MonthPasses ==
    /\ today.year < LastYear \/ today.month < 12
    /\ today' = IF today.month < 12
                THEN [today EXCEPT !.month = today.month + 1]
                ELSE [year |-> today.year + 1, month |-> 1]
    /\ UNCHANGED <<build_meta_file, version_file, skip_bump, bump_ret,
                   modified_files, bump_exit, validationVars, launchVars>>

\* the metadata tried: all three keys, or some of them left out
MetaSamples ==
    {Restrict(meta, keys) :
       meta \in [year : {99, 0, 2099}, month : {1, 12}, build : 1..MaxBuild],
       keys \in SUBSET {"year", "month", "build"}}

InitBump ==
    /\ ValidationIdle
    /\ LaunchIdle
    /\ build_meta_file \in
         {NoFile, NotJson} \cup {[exists |-> TRUE, data |-> m] : m \in MetaSamples}
    /\ version_file = NoFile
    /\ today \in [year : {2099}, month : {11, 12}]
    /\ skip_bump = FALSE
    /\ bump_ret = NoReturn
    /\ modified_files = <<>>
    /\ bump_exit = NoExit

NextBump == BumpVersion \/ StartAgain \/ MonthPasses

SpecBump == InitBump /\ [][NextBump]_vars

-----------------------------------------------------------------------------
(* Claims on bump_version *)

\* the year, the month and the build that bump_version reads from the
\* metadata: a key that is left out counts as the current year, the current
\* month, build 1
StoredYear == Get(build_meta_file.data, "year", today.year % 100)
StoredMonth == Get(build_meta_file.data, "month", today.month)
StoredBuild == Get(build_meta_file.data, "build", 1)

\* the step is a call of bump_version that returns
BumpReturns == bump_ret = NoReturn /\ bump_ret' # NoReturn

\* C39: a call of bump_version without skip_bump that finds the stored year
\* and month equal to the current two-digit year and month stores the build
\* number increased by exactly 1 and leaves year and month as they are;
\* otherwise it stores build 1 with the current year and month; in both
\* cases it returns, and writes to the version file, the current year and
\* month with the stored build.  With skip_bump the metadata and the version
\* file stay as they are and the version made of the stored year, month and
\* build is returned.
C39_BumpOrReset ==
    [][BumpReturns
       => IF skip_bump'
          THEN /\ build_meta_file' = build_meta_file
               /\ version_file' = version_file
               /\ bump_ret'.version
                    = VersionString(StoredYear, StoredMonth, StoredBuild)
          ELSE /\ IF StoredYear = today.year % 100 /\ StoredMonth = today.month
                  THEN /\ build_meta_file'.data.build = StoredBuild + 1
                       /\ \A key \in {"year", "month"} :
                            /\ key \in DOMAIN build_meta_file'.data
                                 <=> key \in DOMAIN build_meta_file.data
                            /\ key \in DOMAIN build_meta_file.data
                                 => build_meta_file'.data[key]
                                      = build_meta_file.data[key]
                  ELSE /\ build_meta_file'.data.build = 1
                       /\ build_meta_file'.data.year = today.year % 100
                       /\ build_meta_file'.data.month = today.month
               /\ bump_ret'.version
                    = VersionString(today.year % 100, today.month,
                                    build_meta_file'.data.build)
               /\ version_file' = [exists |-> TRUE, version |-> bump_ret'.version]
               /\ bump_ret'.meta = build_meta_file'.data]_vars

\* C39 (witness): in January 2100 a call without skip_bump has found the
\* metadata of December (20)99 with a build above 1 and has stored build 1
\* of year 0, month 1
C39_Witness ==
    /\ bump_ret # NoReturn
    /\ ~skip_bump
    /\ today = [year |-> 2100, month |-> 1]
    /\ build_meta_file.data = [year |-> 0, month |-> 1, build |-> 1]
    /\ version_file = [exists |-> TRUE, version |-> VersionString(0, 1, 1)]
    /\ modified_files = <<".build_meta.json", "src/version.rs">>

-----------------------------------------------------------------------------
(* Tools/launch_msi_build.py: main() as a sequence of steps.  launch_pc is  *)
(* the step that comes next.  The machine it runs on is fixed in host; what *)
(* the builds it starts do is chosen when they are started.  ran is the     *)
(* list of the functions called for the components and the build, each with *)
(* what it returned, in the order in which they returned.                   *)

\* --version-override is not given
NoOverride == [given |-> FALSE]

\* one part of the override between the dots: a decimal number or not
Number(n) == [digits |-> TRUE, value |-> n]
Word == [digits |-> FALSE]

\* "2026.4", "2026", "next.4"
OverrideSamples ==
    {NoOverride,
     [given |-> TRUE, parts |-> <<Number(2026), Number(4)>>],
     [given |-> TRUE, parts |-> <<Number(2026)>>],
     [given |-> TRUE, parts |-> <<Word, Number(4)>>]}

\* parse_arguments
LaunchArgs ==
    [bump_version : BOOLEAN, version_override : OverrideSamples,
     output_dir : {"", "dist"}, include_lsp : BOOLEAN, include_vscode : BOOLEAN,
     interactive : BOOLEAN]

\* platform.system(), `cargo --version`, `npm --version`, the Docs directory
Hosts ==
    [platform : {"Windows", "Linux"}, cargo : {"ok", "fails", "absent"},
     npm : {"ok", "fails", "absent"}, docs : BOOLEAN]

\* what the builds of the components find and do: a started process exits
\* with 0 ("ok"), exits with something else ("fails") or cannot be started
\* or runs into its timeout ("oserror")
InstallEnvs ==
    [lsp_dir : BOOLEAN, lsp_cargo_toml : BOOLEAN, cargo_build : {"ok", "fails", "oserror"},
     lsp_binary : BOOLEAN, lsp_probe : {"ok", "fails", "oserror"},
     vscode_dir : BOOLEAN, package_json : BOOLEAN,
     npm_install : {"ok", "fails", "oserror"}, npm_compile : {"ok", "fails", "oserror"}]

\* the part of main() that has been left by sys.exit or by an exception
LaunchExit(status) == launch_pc' = "exit" /\ launch_exit' = status

\* what no step of the launcher changes
launchEnv ==
    <<validationVars, today, skip_bump, bump_ret, modified_files, bump_exit,
      launch_args, host>>

\* check_windows
CheckWindows ==
    /\ launch_pc = "check_windows"
    /\ IF host.platform # "Windows"
       THEN LaunchExit(1)
       ELSE launch_pc' = "version_update" /\ UNCHANGED launch_exit
    /\ UNCHANGED <<launchEnv, build_meta_file, version_file, version,
                   component_options, component_results, build_success,
                   progress_doc, ran>>

\* run_version_update, lines 86-102: the metadata after the override, or the
\* exception that makes it return False
override_metadata(meta_file, override) ==
    IF ~override.given THEN [raised |-> FALSE, meta_file |-> meta_file]
    ELSE IF "data" \notin DOMAIN meta_file THEN [raised |-> TRUE]
    ELSE IF Len(override.parts) >= 2
    THEN IF override.parts[1].digits /\ override.parts[2].digits
         THEN [raised |-> FALSE,
               meta_file |->
                 [exists |-> TRUE,
                  data |-> ("year" :> override.parts[1].value)
                             @@ ("build" :> override.parts[2].value)
                             @@ meta_file.data]]
         ELSE [raised |-> TRUE]
    ELSE [raised |-> FALSE, meta_file |-> meta_file]

\* main, lines 457-462, with run_version_update: bump_version.py is run with
\* [--skip-bump] --update-all --skip-git; after bump_version the script
\* goes on to update the other files and ends with status 0 or 1
RunVersionUpdate ==
    /\ launch_pc = "version_update"
    /\ IF ~(launch_args.bump_version \/ launch_args.version_override.given)
       THEN /\ launch_pc' = "get_current_version"
            /\ UNCHANGED <<build_meta_file, version_file, launch_exit>>
       ELSE LET overridden ==
                  override_metadata(build_meta_file, launch_args.version_override)
            IN IF overridden.raised
               THEN LaunchExit(1) /\ UNCHANGED <<build_meta_file, version_file>>
               ELSE \E update_all \in {0, 1} :
                      LET script == bump_version(overridden.meta_file, version_file,
                                                 today, ~launch_args.bump_version)
                          returncode == IF script.exit # NoExit THEN script.exit
                                        ELSE update_all
                      IN /\ build_meta_file' = script.meta_file
                         /\ version_file' = script.version_file
                         /\ IF returncode = 0
                            THEN launch_pc' = "get_current_version"
                                 /\ UNCHANGED launch_exit
                            ELSE LaunchExit(1)
    /\ UNCHANGED <<launchEnv, version, component_options, component_results,
                   build_success, progress_doc, ran>>

\* get_current_version of the launcher: f"{year}.{build}", or sys.exit(1)
launcher_get_current_version(meta_file, day) ==
    IF "data" \notin DOMAIN meta_file THEN [exit |-> 1]
    ELSE [exit |-> NoExit,
          version |-> <<Get(meta_file.data, "year", day.year),
                        Get(meta_file.data, "build", 0)>>]

\* main, lines 464-466
GetCurrentVersion ==
    /\ launch_pc = "get_current_version"
    /\ LET current == launcher_get_current_version(build_meta_file, today) IN
       IF current.exit # NoExit
       THEN LaunchExit(current.exit) /\ UNCHANGED version
       ELSE /\ version' = current.version
            /\ launch_pc' = "options"
            /\ UNCHANGED launch_exit
    /\ UNCHANGED <<launchEnv, build_meta_file, version_file, component_options,
                   component_results, build_success, progress_doc, ran>>

\* main, lines 468-476, with get_interactive_options: the answers are yes or no
ChooseOptions ==
    /\ launch_pc = "options"
    /\ IF launch_args.interactive
       THEN \E lsp \in BOOLEAN, vscode \in BOOLEAN :
              component_options' = [include_lsp |-> lsp, include_vscode |-> vscode]
       ELSE component_options' = [include_lsp |-> launch_args.include_lsp,
                                  include_vscode |-> launch_args.include_vscode]
    /\ launch_pc' = "check_dependencies"
    /\ UNCHANGED <<launchEnv, build_meta_file, version_file, version,
                   component_results, build_success, progress_doc, ran, launch_exit>>

\* a component is requested (lines 479 and 487)
ComponentsRequested(options) ==
    Get(options, "include_lsp", FALSE) \/ Get(options, "include_vscode", FALSE)

\* check_dependencies
check_dependencies(machine) == machine.cargo = "ok" /\ machine.npm = "ok"

\* main, lines 478-483
CheckDependencies ==
    /\ launch_pc = "check_dependencies"
    /\ IF ComponentsRequested(component_options) /\ ~check_dependencies(host)
       THEN LaunchExit(1)
       ELSE launch_pc' = "install" /\ UNCHANGED launch_exit
    /\ UNCHANGED <<launchEnv, build_meta_file, version_file, version,
                   component_options, component_results, build_success,
                   progress_doc, ran>>

\* check_lsp_server_buildable: "True", "False", or the exception of
\* subprocess.run when there is no cargo to start
check_lsp_server_buildable(machine, env) ==
    IF ~env.lsp_dir THEN "False"
    ELSE IF ~env.lsp_cargo_toml THEN "False"
    ELSE IF machine.cargo = "absent" THEN "FileNotFoundError"
    ELSE IF machine.cargo # "ok" THEN "False"
    ELSE "True"

\* build_lsp_server
build_lsp_server(machine, env) ==
    LET buildable == check_lsp_server_buildable(machine, env) IN
    IF buildable = "False" THEN "False"
    ELSE IF buildable # "True" THEN buildable
    ELSE IF env.cargo_build = "ok" THEN "True"
    ELSE "False"

\* validate_lsp_binary
validate_lsp_binary(env) ==
    IF ~env.lsp_binary THEN "False"
    ELSE IF env.lsp_probe = "ok" THEN "True"
    ELSE "False"

\* build_vscode_extension
build_vscode_extension(env) ==
    IF ~env.vscode_dir THEN "False"
    ELSE IF ~env.package_json THEN "False"
    ELSE IF env.npm_install = "oserror" THEN "False"
    ELSE IF env.npm_install # "ok" THEN "False"
    ELSE IF env.npm_compile = "ok" THEN "True"
    ELSE "False"

Called(step, returned) == [step |-> step, returned |-> returned]

\* run_installation_with_options that returns as soon as the LSP server has
\* failed
run_installation_with_options_stopping(options, machine, env) ==
    LET results == [core_success |-> TRUE, lsp_success |-> TRUE, vscode_success |-> TRUE]
        include_lsp == Get(options, "include_lsp", FALSE)
        include_vscode == Get(options, "include_vscode", FALSE)
        built == build_lsp_server(machine, env)
        validated == validate_lsp_binary(env)
        lsp_ok == built = "True" /\ validated = "True"
        lsp_calls ==
          IF ~include_lsp THEN <<>>
          ELSE <<Called("build_lsp_server", built)>>
               \o (IF built = "True"
                   THEN <<Called("validate_lsp_binary", validated)>> ELSE <<>>)
               \o (IF lsp_ok
                   THEN <<Called("setup_lsp_configuration", "config")>> ELSE <<>>)
        extension == build_vscode_extension(env)
        vscode_calls ==
          IF ~include_vscode THEN <<>>
          ELSE <<Called("build_vscode_extension", extension)>>
               \o (IF extension = "True"
                   THEN <<Called("setup_language_associations", "True")>> ELSE <<>>)
    IN IF include_lsp /\ built \notin {"True", "False"}
       THEN [raised |-> built, calls |-> lsp_calls]
       ELSE IF include_lsp /\ ~lsp_ok
       THEN [raised |-> "none", calls |-> lsp_calls,
             results |-> [results EXCEPT !.lsp_success = FALSE]]
       ELSE [raised |-> "none",
             calls |-> lsp_calls \o vscode_calls,
             results |->
               [results EXCEPT
                  !.lsp_success = IF include_lsp THEN lsp_ok ELSE @,
                  !.vscode_success = IF include_vscode THEN extension = "True" ELSE @]]

\* run_installation_with_options(options): the results and the calls made,
\* in their order, or the exception that ends it
run_installation_with_options(options, machine, env) ==
    LET results == [core_success |-> TRUE, lsp_success |-> TRUE, vscode_success |-> TRUE]
        include_lsp == Get(options, "include_lsp", FALSE)
        include_vscode == Get(options, "include_vscode", FALSE)
        built == build_lsp_server(machine, env)
        validated == validate_lsp_binary(env)
        lsp_ok == built = "True" /\ validated = "True"
        lsp_calls ==
          IF ~include_lsp THEN <<>>
          ELSE <<Called("build_lsp_server", built)>>
               \o (IF built = "True"
                   THEN <<Called("validate_lsp_binary", validated)>> ELSE <<>>)
               \o (IF lsp_ok
                   THEN <<Called("setup_lsp_configuration", "config")>> ELSE <<>>)
        extension == build_vscode_extension(env)
        vscode_calls ==
          IF ~include_vscode THEN <<>>
          ELSE <<Called("build_vscode_extension", extension)>>
               \o (IF extension = "True"
                   THEN <<Called("setup_language_associations", "True")>> ELSE <<>>)
    IN IF include_lsp /\ built \notin {"True", "False"}
       THEN [raised |-> built, calls |-> lsp_calls]
       ELSE [raised |-> "none",
             calls |-> lsp_calls \o vscode_calls,
             results |->
               [results EXCEPT
                  !.lsp_success = IF include_lsp THEN lsp_ok ELSE @,
                  !.vscode_success = IF include_vscode THEN extension = "True" ELSE @]]

\* main, lines 485-488
RunInstallation ==
    /\ launch_pc = "install"
    /\ IF ComponentsRequested(component_options)
       THEN \E call \in {run_installation_with_options(component_options, host, env) :
                           env \in InstallEnvs} :
              /\ ran' = ran \o call.calls
                            \o <<Called("run_installation_with_options",
                                         IF call.raised # "none" THEN call.raised
                                         ELSE "results")>>
              /\ IF call.raised # "none"
                 THEN LaunchExit(1) /\ UNCHANGED component_results
                 ELSE /\ component_results' = call.results
                      /\ launch_pc' = "msi_build"
                      /\ UNCHANGED launch_exit
       ELSE /\ component_results' =
                 [core_success |-> TRUE, lsp_success |-> TRUE, vscode_success |-> TRUE]
            /\ launch_pc' = "msi_build"
            /\ UNCHANGED <<ran, launch_exit>>
    /\ UNCHANGED <<launchEnv, build_meta_file, version_file, version,
                   component_options, build_success, progress_doc>>

\* main, lines 490-492, with run_msi_build: powershell exits with 0 or with
\* something else, or it cannot be started
RunMsiBuild ==
    /\ launch_pc = "msi_build"
    /\ \E powershell \in {"ok", "fails", "oserror"} :
         IF powershell = "oserror"
         THEN LaunchExit(1) /\ UNCHANGED <<build_success, ran>>
         ELSE /\ build_success' = IF powershell = "ok" THEN "True" ELSE "False"
              /\ ran' = Append(ran, Called("run_msi_build", build_success'))
              /\ launch_pc' = "progress"
              /\ UNCHANGED launch_exit
    /\ UNCHANGED <<launchEnv, build_meta_file, version_file, version,
                   component_options, component_results, progress_doc>>

\* main, lines 494-498
output_path ==
    [dir |-> IF launch_args.output_dir # "" THEN launch_args.output_dir
             ELSE "target/x86_64-pc-windows-msvc/release",
     msi |-> version]

\* main, lines 500-501, with update_progress_doc: without the Docs directory
\* the progress file cannot be opened
UpdateProgressDoc ==
    /\ launch_pc = "progress"
    /\ IF ~host.docs
       THEN LaunchExit(1) /\ UNCHANGED progress_doc
       ELSE /\ progress_doc' =
                 Append(progress_doc,
                        IF build_success = "True"
                        THEN [version |-> version, status |-> "SUCCESS",
                              output |-> output_path]
                        ELSE [version |-> version, status |-> "FAILED"])
            /\ launch_pc' = "report"
            /\ UNCHANGED launch_exit
    /\ UNCHANGED <<launchEnv, build_meta_file, version_file, version,
                   component_options, component_results, build_success, ran>>

\* main, lines 514-516
overall_success ==
    /\ build_success = "True"
    /\ Get(component_results, "lsp_success", TRUE)
    /\ Get(component_results, "vscode_success", TRUE)

\* main, lines 503-529
Report ==
    /\ launch_pc = "report"
    /\ IF overall_success
       THEN ran' = Append(ran, Called("report", "[SUCCESS]")) /\ LaunchExit(0)
       ELSE ran' = Append(ran, Called("report", "[PARTIAL SUCCESS]")) /\ LaunchExit(0)
    /\ UNCHANGED <<launchEnv, build_meta_file, version_file, version,
                   component_options, component_results, build_success,
                   progress_doc>>

\* the metadata the launcher starts with: none, not JSON, year and build
\* only, and year, month and build
LaunchMetaSamples ==
    {NoFile, NotJson,
     [exists |-> TRUE, data |-> [year |-> 2099, build |-> MaxBuild]],
     [exists |-> TRUE, data |-> [year |-> 99, month |-> 11, build |-> MaxBuild]]}

InitLaunch ==
    /\ ValidationIdle
    /\ build_meta_file \in LaunchMetaSamples
    /\ version_file = NoFile
    /\ today = [year |-> 2099, month |-> 11]
    /\ skip_bump = FALSE
    /\ bump_ret = NoReturn
    /\ modified_files = <<>>
    /\ bump_exit = NoExit
    /\ launch_args \in LaunchArgs
    /\ host \in Hosts
    /\ launch_pc = "check_windows"
    /\ version = <<>>
    /\ component_options = <<>>
    /\ component_results = <<>>
    /\ build_success = "none"
    /\ progress_doc = <<>>
    /\ ran = <<>>
    /\ launch_exit = NoExit

NextLaunch ==
    \/ CheckWindows
    \/ RunVersionUpdate
    \/ GetCurrentVersion
    \/ ChooseOptions
    \/ CheckDependencies
    \/ RunInstallation
    \/ RunMsiBuild
    \/ UpdateProgressDoc
    \/ Report

SpecLaunch == InitLaunch /\ [][NextLaunch]_vars

-----------------------------------------------------------------------------
(* Claims on the launcher *)

\* the function has been called and has returned what it was called with
HasRun(step, returned) ==
    \E i \in 1..Len(ran) : ran[i] = Called(step, returned)

\* the function has been called
WasCalled(step) == \E i \in 1..Len(ran) : ran[i].step = step

\* run_installation_with_options has returned its results
InstallationReturned == HasRun("run_installation_with_options", "results")

\* C37: whenever run_msi_build has reported failure, the launcher ends with
\* an exit status other than 0
C37_FailedBuildExitsNonZero ==
    launch_pc = "exit" /\ build_success = "False" => launch_exit # 0

====
